---- MODULE Spec2Model ----
(***************************************************************************)
(* Retrieval-augmented answering pipeline of the loopers repository:       *)
(*   - SimpleEmbeddingManager.similarity / find_similar_chunks             *)
(*   - hackrx_run (main_hackrx.py), the per-document question loop         *)
(*   - SimpleGeminiManager.generate_response / _parse_response             *)
(*   - DocumentProcessor._create_chunks and                                *)
(*     SimpleDocumentProcessor.split_into_chunks                           *)
(*                                                                         *)
(* Strings are sequences: a text handed to the generation parser is a      *)
(* sequence of lines, a line is a label and a sequence of words.  A float  *)
(* similarity score is kept exactly, as the pair (n, d) standing for       *)
(* n / sqrt(d), so that comparisons are those of the real numbers.         *)
(***************************************************************************)
EXTENDS Integers, Sequences, FiniteSets, TLC

VARIABLES
    \* ---- find_similar_chunks called on its own
    fpc, query_embedding, embeddings_in, top_k, found,
    \* ---- hackrx_run
    pc, questions, document_chunks, chunk_embeddings, qi,
    similar_chunks, relevant_chunks, answers, response,
    \* the outcome of the external calls made for each question so far
    calls,
    \* ---- DocumentProcessor._create_chunks
    cpc, sentences, si, current_chunk, current_chunk_sentences, chunks,
    chunk_index, overlap_sentences,
    \* ---- SimpleDocumentProcessor.split_into_chunks
    spc, text, split_chunk_size, split_overlap, start, split_chunks,
    \* the slice text[start:end] taken in each iteration so far
    spans,
    \* ---- the two parsers of a generation response: parse_llm_response with
    \* steps 6-7 of process_query, and _parse_response
    ppc, llm_response, parsed_response, query_outcome, labeled_outcome,
    \* ---- _generate_dummy_embedding in several threads
    rng_state, epc, embed_text, embedding, embedded, ncalls,
    \* ---- text extraction and the dispatch of process_document_from_url
    xpc, extractor, source_format, available, library, file_extension,
    dispatched, attempted, text_content, extract_result,
    \* ---- /hackrx/run requests on one event loop
    loop_task, rpc, rleft,
    \* ---- POST /query
    qpc, query_body, request_query, qcalls, qstatus,
    \* ---- the document service: handler position, request and response,
    \* the file system, the two tables, the vector index, the sessions left
    \* open, the locals of process_document and of the upload handler, and
    \* the number of requests served
    dpc, svc_request, svc_response, files, metadata_rows, chunk_rows,
    index_vectors, open_sessions, document_id, proc_path, proc_chunks,
    temp_path, served,
    \* ---- encode and encode_batch called by one thread
    bpc, enc_model, enc_call, model_raised, enc_result

findVars == <<fpc, query_embedding, embeddings_in, top_k, found>>
runVars  == <<pc, questions, document_chunks, chunk_embeddings, qi,
              similar_chunks, relevant_chunks, answers, response, calls>>
createVars == <<cpc, sentences, si, current_chunk, current_chunk_sentences,
                chunks, chunk_index, overlap_sentences>>
splitVars == <<spc, text, split_chunk_size, split_overlap, start, split_chunks,
               spans>>
parseVars == <<ppc, llm_response, parsed_response, query_outcome, labeled_outcome>>
embedVars == <<rng_state, epc, embed_text, embedding, embedded, ncalls>>
extractVars == <<xpc, extractor, source_format, available, library,
                 file_extension, dispatched, attempted, text_content,
                 extract_result>>
asyncVars == <<loop_task, rpc, rleft>>
queryVars == <<qpc, query_body, request_query, qcalls, qstatus>>
\* the variables of the request handlers of main.py and of encode_batch
storeVars == <<dpc, svc_request, svc_response, files, metadata_rows, chunk_rows,
               index_vectors, open_sessions, document_id, proc_path,
               proc_chunks, temp_path, served>>
batchVars == <<bpc, enc_model, enc_call, model_raised, enc_result>>
serviceVars == <<queryVars, storeVars, batchVars>>
vars == <<findVars, runVars, createVars, splitVars, parseVars, embedVars,
          extractVars, asyncVars, serviceVars>>

\* the variables of all the machines but one
exceptFind ==
    <<runVars, createVars, splitVars, parseVars,
      embedVars, extractVars, asyncVars, serviceVars>>
exceptRun ==
    <<findVars, createVars, splitVars, parseVars,
      embedVars, extractVars, asyncVars, serviceVars>>
exceptCreate ==
    <<findVars, runVars, splitVars, parseVars,
      embedVars, extractVars, asyncVars, serviceVars>>
exceptSplit ==
    <<findVars, runVars, createVars, parseVars,
      embedVars, extractVars, asyncVars, serviceVars>>
exceptParse ==
    <<findVars, runVars, createVars, splitVars,
      embedVars, extractVars, asyncVars, serviceVars>>
exceptEmbed ==
    <<findVars, runVars, createVars, splitVars,
      parseVars, extractVars, asyncVars, serviceVars>>
exceptExtract ==
    <<findVars, runVars, createVars, splitVars,
      parseVars, embedVars, asyncVars, serviceVars>>
exceptAsync ==
    <<findVars, runVars, createVars, splitVars,
      parseVars, embedVars, extractVars, serviceVars>>
exceptService ==
    <<findVars, runVars, createVars, splitVars,
      parseVars, embedVars, extractVars, asyncVars>>
exceptQuery == <<exceptService, storeVars, batchVars>>
exceptStore == <<exceptService, queryVars, batchVars>>
exceptBatch == <<exceptService, queryVars, storeVars>>

----------------------------------------------------------------------------
(* Bounds of the model *)

MaxChunks == 4
MaxTopK == 4
MaxQuestions == 2
MaxSentences == 4
MaxTextLen == 5
MaxSplitSize == 4
MaxIter == 6
MaxProse == 2
MaxLines == 3
MaxThreads == 2
MaxEmbeddingSize == 2
MaxCalls == 2
MaxRequests == 2
MaxRuns == 3
MaxDocs == 2
MaxFiles == 3
MaxDocChunks == 2
MaxServed == 3
MaxBatch == 3

(* Program constants *)

\* main_hackrx.py:195  top_k=3
RunTopK == 3
\* main_hackrx.py:201  similarity_score > 0.1, kept as 1 / ThresholdInv
ThresholdInv == 10
\* main_hackrx.py:206  document_chunks[:2]
LastResortChunks == 2
\* document_processor.py:57  self.chunk_size = 1000
chunk_size == 1000
\* document_processor.py:58  self.chunk_overlap = 200
chunk_overlap == 200
\* document_processor.py:292  current_chunk_sentences[-2:]
OverlapSentences == 2
\* simple_document_processor.py:142  start + chunk_size - 100
LookBack == 100

----------------------------------------------------------------------------
(* Small helpers *)

Min(a, b) == IF a < b THEN a ELSE b
Max(a, b) == IF a > b THEN a ELSE b
Abs(x) == IF x < 0 THEN -x ELSE x

RECURSIVE SumTo(_, _)
SumTo(f, n) == IF n = 0 THEN 0 ELSE f[n] + SumTo(f, n - 1)

\* Python s[:k]
PyPrefix(s, k) ==
    IF k >= 0 THEN SubSeq(s, 1, Min(k, Len(s)))
    ELSE SubSeq(s, 1, Max(0, Len(s) + k))

----------------------------------------------------------------------------
(* Scores: [n |-> dot, d |-> |a|^2 |b|^2] stands for dot / sqrt(d) *)

ZeroScore == [n |-> 0, d |-> 1]

\* x |-> x|x| is strictly increasing, so a < b iff
\* a.n|a.n| * b.d < b.n|b.n| * a.d   (a.d, b.d > 0)
ScoreLT(a, b) == a.n * Abs(a.n) * b.d < b.n * Abs(b.n) * a.d
ScoreEQ(a, b) == a.n * Abs(a.n) * b.d = b.n * Abs(b.n) * a.d
ScoreGE(a, b) == ~ScoreLT(a, b)

\* similarity_score > 0.1
AboveThreshold(s) ==
    /\ s.n > 0
    /\ ThresholdInv * ThresholdInv * s.n * s.n > s.d

\* SimpleEmbeddingManager.similarity
similarity(embedding1, embedding2) ==
    IF Len(embedding1) # Len(embedding2) THEN ZeroScore
    ELSE LET n == Len(embedding1)
             dot_product == SumTo([i \in 1..n |-> embedding1[i] * embedding2[i]], n)
             mag1sq == SumTo([i \in 1..n |-> embedding1[i] * embedding1[i]], n)
             mag2sq == SumTo([i \in 1..n |-> embedding2[i] * embedding2[i]], n)
         IN IF mag1sq > 0 /\ mag2sq > 0
            THEN [n |-> dot_product, d |-> mag1sq * mag2sq]
            ELSE ZeroScore

\* list.sort(key=lambda x: x[1], reverse=True): a stable sort, so an element
\* goes behind every element already placed whose key is >= its own.
InsertUnstable(sorted, x) ==
    LET pos == Cardinality({i \in 1..Len(sorted) : ScoreLT(x[2], sorted[i][2])})
    IN SubSeq(sorted, 1, pos) \o <<x>> \o SubSeq(sorted, pos + 1, Len(sorted))

InsertDesc(sorted, x) ==
    LET pos == Cardinality({i \in 1..Len(sorted) : ScoreGE(sorted[i][2], x[2])})
    IN SubSeq(sorted, 1, pos) \o <<x>> \o SubSeq(sorted, pos + 1, Len(sorted))

RECURSIVE SortDescFrom(_, _, _)
SortDescFrom(s, k, acc) ==
    IF k > Len(s) THEN acc
    ELSE SortDescFrom(s, k + 1, InsertDesc(acc, s[k]))

SortDesc(s) == SortDescFrom(s, 1, <<>>)

\* the mutant of the slice: one entry too few
TopKShort(sorted, k) == PyPrefix(sorted, k - 1)

TopK(sorted, k) == PyPrefix(sorted, k)

\* SimpleEmbeddingManager.find_similar_chunks; chunk indices are 0-based
find_similar_chunks(query, chunk_embs, k) ==
    LET similarities ==
            [i \in 1..Len(chunk_embs) |-> <<i - 1, similarity(query, chunk_embs[i])>>]
    IN TopK(SortDesc(similarities), k)

----------------------------------------------------------------------------
(* Inputs: embedding vectors.  With QueryA the chunk vectors score          *)
(* 1, 1/10 (exactly the threshold), 0, -1 and 0 (length mismatch).          *)

VecA == <<1, 0, 0, 0>>
VecB == <<1, 3, 3, 9>>
VecC == <<0, 1, 0, 0>>
VecD == <<-1, 0, 0, 0>>
VecShort == <<1, 0>>

QueryVecs == {VecA, VecB}
FindChunkVecs == {VecA, VecB, VecC, VecD, VecShort}
RunQueryVecs == {VecA}
RunChunkVecs == {VecA, VecB, VecC}

SeqsUpTo(S, n) == UNION {[1..k -> S] : k \in 0..n}

----------------------------------------------------------------------------
(* Generation texts.  A text is a sequence of lines; the label of a line is *)
(* what line.lower().startswith(...) recognises, its body the words after   *)
(* the label.                                                               *)

Line(label, body) == [label |-> label, body |-> body]
BlankLine == Line("none", <<>>)
IsBlank(line) == line.label = "none" /\ line.body = <<>>

LabelWord(label) ==
    CASE label = "answer" -> <<"Answer:">>
      [] label = "confidence" -> <<"Confidence:">>
      [] label = "evidence" -> <<"Supporting Evidence:">>
      [] OTHER -> <<>>

\* the characters of a line, as words
LineWords(line) == LabelWord(line.label) \o line.body

RECURSIVE TextWords(_)
TextWords(txt) ==
    IF txt = <<>> THEN <<>> ELSE LineWords(Head(txt)) \o TextWords(Tail(txt))

\* str.strip() on a whole text: leading and trailing blank lines go
RECURSIVE StripLeft(_)
StripLeft(txt) ==
    IF txt # <<>> /\ IsBlank(Head(txt)) THEN StripLeft(Tail(txt)) ELSE txt

RECURSIVE StripRight(_)
StripRight(txt) ==
    IF txt # <<>> /\ IsBlank(txt[Len(txt)])
    THEN StripRight(SubSeq(txt, 1, Len(txt) - 1)) ELSE txt

StripText(txt) == StripRight(StripLeft(txt))

Lower(w) == IF w = "HIGH" THEN "high" ELSE w

TextStructured ==
    <<Line("answer", <<"covered">>), Line("confidence", <<"HIGH">>),
      Line("evidence", <<"clause 4">>)>>
TextPlain == <<Line("none", <<"it depends">>)>>
TextWhitespace == <<BlankLine>>
TextEmpty == <<>>

GenTexts == {TextStructured, TextPlain, TextWhitespace, TextEmpty}

\* what the generation capability does on one call
NotCalled == [kind |-> "not_called", text |-> <<>>]

GenOutcomes ==
    {[kind |-> "unconfigured", text |-> <<>>], [kind |-> "raise", text |-> <<>>]}
        \cup {[kind |-> "text", text |-> t] : t \in GenTexts}

\* SimpleGeminiManager._generate_dummy_response
DummyResponse(question) ==
    <<Line("answer", <<"I apologize, unable to answer", question>>),
      BlankLine,
      Line("confidence", <<"low">>),
      Line("evidence", <<"No evidence available due to API configuration issue.">>)>>

EmptyGenerationText ==
    <<Line("none", <<"I apologize, but I couldn't generate a response for this query.">>)>>

\* SimpleGeminiManager.generate_response
generate_response(question, gen) ==
    IF gen.kind = "unconfigured" THEN DummyResponse(question)
    ELSE IF gen.kind = "raise" THEN DummyResponse(question)
    ELSE IF gen.text # <<>> THEN StripText(gen.text)
    ELSE EmptyGenerationText

ConfidenceLevels == {"high", "medium", "low"}

\* the mutant of the iteration: an unlabeled line is never a continuation
ParseLineLabelsOnly(st, raw) ==
    IF IsBlank(raw) THEN st
    ELSE IF raw.label = "answer"
         THEN [st EXCEPT !.section = "answer", !.answer = raw.body]
    ELSE IF raw.label = "confidence"
         THEN [st EXCEPT !.section = "confidence"]
    ELSE IF raw.label = "evidence"
         THEN [st EXCEPT !.section = "evidence",
                         !.supporting_evidence =
                             IF raw.body # <<>> THEN Append(@, raw.body) ELSE @]
    ELSE st

\* one iteration of the line loop of _parse_response
ParseLine(st, raw) ==
    IF IsBlank(raw) THEN st
    ELSE IF raw.label = "answer"
         THEN [st EXCEPT !.section = "answer", !.answer = raw.body]
    ELSE IF raw.label = "confidence"
         THEN LET confidence_text == [i \in 1..Len(raw.body) |-> Lower(raw.body[i])]
              IN [st EXCEPT !.section = "confidence",
                            !.confidence =
                                IF Len(confidence_text) = 1
                                   /\ confidence_text[1] \in ConfidenceLevels
                                THEN confidence_text[1] ELSE @]
    ELSE IF raw.label = "evidence"
         THEN [st EXCEPT !.section = "evidence",
                         !.supporting_evidence =
                             IF raw.body # <<>> THEN Append(@, raw.body) ELSE @]
    ELSE IF st.section = "answer"
         THEN [st EXCEPT !.answer = @ \o LineWords(raw)]
    ELSE IF st.section = "evidence"
         THEN [st EXCEPT !.supporting_evidence = Append(@, LineWords(raw))]
    ELSE st

RECURSIVE ParseLines(_, _)
ParseLines(st, lines) ==
    IF lines = <<>> THEN st ELSE ParseLines(ParseLine(st, Head(lines)), Tail(lines))

\* the mutant of the default confidence
DefaultConfidenceHigh == "high"

DefaultConfidence == "medium"

\* SimpleGeminiManager._parse_response
parse_response(response_text, question) ==
    LET st == ParseLines([answer |-> TextWords(response_text),
                          confidence |-> DefaultConfidence,
                          supporting_evidence |-> <<>>,
                          section |-> "none"], response_text)
    IN [question |-> question, answer |-> st.answer,
        confidence |-> st.confidence,
        supporting_evidence |-> st.supporting_evidence]

\* SimpleGeminiManager.answer_question_with_context
answer_question_with_context(question, context_chunks, gen) ==
    parse_response(generate_response(question, gen), question)

----------------------------------------------------------------------------
(* find_similar_chunks called on its own: the inputs are drawn in Init *)

FindIdle ==
    /\ fpc = "idle" /\ query_embedding = <<>> /\ embeddings_in = <<>>
    /\ top_k = 0 /\ found = <<>>

InitFind ==
    /\ fpc = "call"
    /\ query_embedding \in QueryVecs
    /\ embeddings_in \in SeqsUpTo(FindChunkVecs, MaxChunks)
    /\ top_k \in 0..MaxTopK
    /\ found = <<>>

FindSimilar ==
    /\ fpc = "call"
    /\ found' = find_similar_chunks(query_embedding, embeddings_in, top_k)
    /\ fpc' = "returned"
    /\ UNCHANGED <<query_embedding, embeddings_in, top_k>>

----------------------------------------------------------------------------
(* hackrx_run *)

\* what embedding_manager.encode(question) does on one call
\* (simple_embedding_manager.py:63-76)
EncodeOutcomes ==
    {[raised |-> TRUE, vec |-> <<>>]}
        \cup {[raised |-> FALSE, vec |-> v] : v \in RunQueryVecs}

QuestionPool == <<"q1", "q2", "q3", "q4">>

NoResponse ==
    [kind |-> "none", status |-> 0, questions_processed |-> 0, answers |-> <<>>]

\* main_hackrx.py:254-262 (and the HTTPException of 166-169)
ErrorResponse(kind, status) ==
    [kind |-> kind, status |-> status, questions_processed |-> 0, answers |-> <<>>]

\* main_hackrx.py:240-245
HackRxResponse(ans) ==
    [kind |-> "HackRxResponse", status |-> 200,
     questions_processed |-> Len(ans), answers |-> ans]

\* main_hackrx.py:215-220
HackRxQuestionResponse(question, answer_result) ==
    [question |-> question, answer |-> answer_result.answer,
     confidence |-> answer_result.confidence,
     supporting_evidence |-> answer_result.supporting_evidence]

\* main_hackrx.py:228-233
ErrorQuestionResponse(question) ==
    [question |-> question,
     answer |-> <<"I apologize, but I encountered an error while processing this question:",
                  "exception">>,
     confidence |-> "low",
     supporting_evidence |-> <<>>]

\* the mutant of the selection: the threshold is not applied
SelectRelevantAll(similar, doc_chunks) ==
    [i \in 1..Len(similar) |-> doc_chunks[similar[i][1] + 1]]

\* main_hackrx.py:199-202
SelectRelevant(similar, doc_chunks) ==
    LET kept == SelectSeq(similar, LAMBDA p : AboveThreshold(p[2]))
    IN [i \in 1..Len(kept) |-> doc_chunks[kept[i][1] + 1]]

\* main_hackrx.py:205-206
LastResort(relevant, doc_chunks) ==
    IF relevant = <<>> /\ doc_chunks # <<>>
    THEN PyPrefix(doc_chunks, LastResortChunks) ELSE relevant

\* the mutant of the except branch: the failed question is dropped
OnQuestionErrorDropped(ans, question) == ans

\* main_hackrx.py:225-234
OnQuestionError(ans, question) == Append(ans, ErrorQuestionResponse(question))

\* the mutant of the except branch: the failure ends the run
AfterQuestionErrorFailed == "Failed"

\* main_hackrx.py:225-234: the loop goes on
AfterQuestionError == "Answering"

RunIdle ==
    /\ pc = "idle" /\ questions = <<>> /\ document_chunks = <<>>
    /\ chunk_embeddings = <<>> /\ qi = 0 /\ similar_chunks = <<>>
    /\ relevant_chunks = <<>> /\ answers = <<>> /\ response = NoResponse
    /\ calls = <<>>

\* a validated HackRxRequest (models.py:32-37: at least one question)
InitRun ==
    /\ pc = "Received"
    /\ questions \in {SubSeq(QuestionPool, 1, k) : k \in 1..MaxQuestions}
    /\ document_chunks = <<>> /\ chunk_embeddings = <<>> /\ qi = 0
    /\ similar_chunks = <<>> /\ relevant_chunks = <<>> /\ answers = <<>>
    /\ response = NoResponse /\ calls = <<>>

\* process_document_from_url: download and extraction (main_hackrx.py:158)
Extract ==
    /\ pc = "Received"
    /\ \E outcome \in {"download_failed", "extraction_failed", "ok"} :
          IF outcome = "ok"
          THEN pc' = "Extracted" /\ UNCHANGED response
          ELSE pc' = "Failed" /\ response' = ErrorResponse("error", 500)
    /\ UNCHANGED <<questions, document_chunks, chunk_embeddings, qi,
                   similar_chunks, relevant_chunks, answers, calls>>

\* process_document_from_url: clean_text and split_into_chunks; the chunks of
\* the document are 1..n
Chunk ==
    /\ pc = "Extracted"
    /\ \E n \in 0..MaxChunks : document_chunks' = [i \in 1..n |-> i]
    /\ pc' = "Chunked"
    /\ UNCHANGED <<questions, chunk_embeddings, qi, similar_chunks,
                   relevant_chunks, answers, response, calls>>

\* the mutant of the step: the empty chunk list is not checked
IndexUnchecked ==
    /\ pc = "Chunked"
    /\ chunk_embeddings' \in [1..Len(document_chunks) -> RunChunkVecs]
    /\ pc' = "Indexed"
    /\ UNCHANGED <<response, questions, document_chunks, qi, similar_chunks,
                   relevant_chunks, answers, calls>>

\* main_hackrx.py:165-178
Index ==
    /\ pc = "Chunked"
    /\ IF document_chunks = <<>>
       THEN /\ pc' = "Failed"
            /\ response' = ErrorResponse("http_error", 400)
            /\ UNCHANGED chunk_embeddings
       ELSE /\ chunk_embeddings' \in [1..Len(document_chunks) -> RunChunkVecs]
            /\ pc' = "Indexed"
            /\ UNCHANGED response
    /\ UNCHANGED <<questions, document_chunks, qi, similar_chunks,
                   relevant_chunks, answers, calls>>

\* main_hackrx.py:184-234, one iteration of the loop
AnswerQuestion ==
    /\ pc \in {"Indexed", "Answering"}
    /\ qi < Len(questions)
    /\ \E enc \in EncodeOutcomes, gen \in GenOutcomes :
          LET question == questions[qi + 1] IN
          /\ calls' = Append(calls, [enc |-> enc,
                                     gen |-> IF enc.raised THEN NotCalled ELSE gen])
          /\ IF enc.raised
             THEN /\ answers' = OnQuestionError(answers, question)
                  /\ pc' = AfterQuestionError
                  /\ UNCHANGED <<similar_chunks, relevant_chunks>>
             ELSE LET similar == find_similar_chunks(enc.vec, chunk_embeddings, RunTopK)
                      relevant == LastResort(SelectRelevant(similar, document_chunks),
                                             document_chunks)
                      answer_result ==
                          answer_question_with_context(question, relevant, gen)
                  IN /\ similar_chunks' = similar
                     /\ relevant_chunks' = relevant
                     /\ answers' = Append(answers,
                                          HackRxQuestionResponse(question, answer_result))
                     /\ pc' = "Answering"
    /\ qi' = qi + 1
    /\ UNCHANGED <<questions, document_chunks, chunk_embeddings, response>>

\* main_hackrx.py:236-248
Finish ==
    /\ pc \in {"Indexed", "Answering"}
    /\ qi = Len(questions)
    /\ response' = HackRxResponse(answers)
    /\ pc' = "Done"
    /\ UNCHANGED <<questions, document_chunks, chunk_embeddings, qi,
                   similar_chunks, relevant_chunks, answers, calls>>

----------------------------------------------------------------------------
(* DocumentProcessor._create_chunks.  The text is the sequence of sentences *)
(* sent_tokenize returns; a sentence is known by its position and its       *)
(* length, and a string built from sentences is the sequence of their       *)
(* positions, joined by single spaces.                                      *)

SentenceLens == {90, 450, 1001}

RECURSIVE SumLens(_, _)
SumLens(lens, ids) ==
    IF ids = <<>> THEN 0 ELSE lens[Head(ids)] + SumLens(lens, Tail(ids))

\* len(" ".join(...)) of the sentences ids
JoinLen(lens, ids) ==
    IF ids = <<>> THEN 0 ELSE SumLens(lens, ids) + Len(ids) - 1

\* Python s[-k:]
PySuffix(s, k) == SubSeq(s, Max(1, Len(s) - k + 1), Len(s))

\* document_processor.py:292
OverlapOf(chunk_sentences) ==
    IF Len(chunk_sentences) > OverlapSentences
    THEN PySuffix(chunk_sentences, OverlapSentences) ELSE chunk_sentences

\* document_processor.py:281-288 and 299-306
ChunkRecord(chunk_text, index, count) ==
    [chunk_text |-> chunk_text, chunk_index |-> index,
     chunk_size |-> JoinLen(sentences, chunk_text), sentence_count |-> count]

CreateIdle ==
    /\ cpc = "idle" /\ sentences = <<>> /\ si = 0 /\ current_chunk = <<>>
    /\ current_chunk_sentences = <<>> /\ chunks = <<>> /\ chunk_index = 0
    /\ overlap_sentences = <<>>

InitCreate ==
    /\ cpc = "loop"
    /\ sentences \in SeqsUpTo(SentenceLens, MaxSentences)
    /\ si = 0 /\ current_chunk = <<>> /\ current_chunk_sentences = <<>>
    /\ chunks = <<>> /\ chunk_index = 0 /\ overlap_sentences = <<>>

\* document_processor.py:270-294, one iteration of the sentence loop
CreateStep ==
    /\ cpc = "loop"
    /\ si < Len(sentences)
    /\ LET sentence == si + 1
           test_chunk == current_chunk \o <<sentence>>
       IN IF JoinLen(sentences, test_chunk) <= chunk_size
          THEN /\ current_chunk' = test_chunk
               /\ current_chunk_sentences' = Append(current_chunk_sentences, sentence)
               /\ UNCHANGED <<chunks, chunk_index, overlap_sentences>>
          ELSE /\ IF current_chunk # <<>>
                  THEN /\ chunks' = Append(chunks,
                                           ChunkRecord(current_chunk, chunk_index,
                                                       Len(current_chunk_sentences)))
                       /\ chunk_index' = chunk_index + 1
                  ELSE UNCHANGED <<chunks, chunk_index>>
               /\ overlap_sentences' = OverlapOf(current_chunk_sentences)
               /\ current_chunk' = OverlapOf(current_chunk_sentences) \o <<sentence>>
               /\ current_chunk_sentences' =
                      OverlapOf(current_chunk_sentences) \o <<sentence>>
    /\ si' = si + 1
    /\ UNCHANGED <<cpc, sentences>>

\* document_processor.py:296-308
CreateFinal ==
    /\ cpc = "loop"
    /\ si = Len(sentences)
    /\ IF current_chunk # <<>>
       THEN chunks' = Append(chunks, ChunkRecord(current_chunk, chunk_index,
                                                 Len(current_chunk_sentences)))
       ELSE UNCHANGED chunks
    /\ cpc' = "done"
    /\ UNCHANGED <<sentences, si, current_chunk, current_chunk_sentences,
                   chunk_index, overlap_sentences>>

----------------------------------------------------------------------------
(* SimpleDocumentProcessor.split_into_chunks.  A text is a sequence of      *)
(* characters; Python positions are 0-based and a negative position counts  *)
(* from the end.                                                            *)

Chars == {"a", ".", " "}
SentenceEnd == {".", "!", "?"}

\* the (chunk_size, overlap) pairs of a call: 0 <= overlap < chunk_size
SplitParams ==
    {p \in (1..MaxSplitSize) \X (0..MaxSplitSize) : p[2] < p[1]}

\* text[i] is no IndexError
PyValid(t, i) == -Len(t) <= i /\ i < Len(t)

\* text[i]
PyChar(t, i) == IF i >= 0 THEN t[i + 1] ELSE t[Len(t) + i + 1]

\* a slice bound as Python clamps it
PyClamp(t, i) == IF i < 0 THEN Max(0, Len(t) + i) ELSE Min(i, Len(t))

\* the mutant of the slice: its last character is lost
PySliceShort(t, lo, hi) == SubSeq(t, PyClamp(t, lo) + 1, PyClamp(t, hi) - 1)

\* text[lo:hi]
PySlice(t, lo, hi) == SubSeq(t, PyClamp(t, lo) + 1, PyClamp(t, hi))

RECURSIVE LStrip(_)
LStrip(t) == IF t # <<>> /\ Head(t) = " " THEN LStrip(Tail(t)) ELSE t

RECURSIVE RStrip(_)
RStrip(t) ==
    IF t # <<>> /\ t[Len(t)] = " " THEN RStrip(SubSeq(t, 1, Len(t) - 1)) ELSE t

\* str.strip()
Strip(t) == RStrip(LStrip(t))

\* simple_document_processor.py:137-145: the end of the chunk that starts at
\* s, or "IndexError" when the scan reads a position outside the text
ChunkEnd(t, s, size) ==
    LET end == s + size
        low == Max(s + size - LookBack, s)
        stops == {i \in (low + 1)..end : ~PyValid(t, i) \/ PyChar(t, i) \in SentenceEnd}
        first == CHOOSE i \in stops : \A j \in stops : j <= i
    IN IF end < Len(t) /\ stops # {}
       THEN IF PyValid(t, first) THEN first + 1 ELSE -1000000
       ELSE end

\* simple_document_processor.py:124  the punctuation a blank is dropped before
CleanPunctuation == {".", ",", ";", ":", "!", "?"}

\* simple_document_processor.py:118  re.sub(r'\s+', ' ', text)
RECURSIVE CollapseSpaces(_)
CollapseSpaces(t) ==
    IF Len(t) < 2 THEN t
    ELSE IF t[1] = " " /\ t[2] = " " THEN CollapseSpaces(Tail(t))
    ELSE <<t[1]>> \o CollapseSpaces(Tail(t))

\* simple_document_processor.py:124  re.sub(r'\s+([\.\,\;\:\!\?])', r'\1', text)
RECURSIVE SpaceBeforePunctuation(_)
SpaceBeforePunctuation(t) ==
    IF t = <<>> THEN t
    ELSE IF t[1] = " " /\ LStrip(t) # <<>> /\ LStrip(t)[1] \in CleanPunctuation
    THEN SpaceBeforePunctuation(LStrip(t))
    ELSE <<t[1]>> \o SpaceBeforePunctuation(Tail(t))

\* a cleaning that keeps the blanks at both ends
clean_text_unstripped(t) ==
    IF t = <<>> THEN <<>> ELSE SpaceBeforePunctuation(CollapseSpaces(t))

\* simple_document_processor.py:112-126  clean_text
clean_text(t) ==
    IF t = <<>> THEN <<>> ELSE Strip(SpaceBeforePunctuation(CollapseSpaces(t)))

SplitIdle ==
    /\ spc = "idle" /\ text = <<>> /\ split_chunk_size = 0 /\ split_overlap = 0
    /\ start = 0 /\ split_chunks = <<>> /\ spans = <<>>

InitSplit ==
    /\ spc = "call"
    /\ text \in SeqsUpTo(Chars, MaxTextLen)
    /\ \E p \in SplitParams : split_chunk_size = p[1] /\ split_overlap = p[2]
    /\ start = 0 /\ split_chunks = <<>> /\ spans = <<>>

\* simple_document_processor.py:130-136
SplitEnter ==
    /\ spc = "call"
    /\ spc' = IF text = <<>> THEN "done" ELSE "loop"
    /\ UNCHANGED <<text, split_chunk_size, split_overlap, start, split_chunks, spans>>

\* simple_document_processor.py:136-153, one iteration of the while loop
SplitStep ==
    /\ spc = "loop"
    /\ start < Len(text)
    /\ Len(spans) < MaxIter
    /\ LET end == ChunkEnd(text, start, split_chunk_size)
           chunk == Strip(PySlice(text, start, end))
       IN IF end = -1000000
          THEN /\ spc' = "raised"
               /\ UNCHANGED <<start, split_chunks, spans>>
          ELSE /\ split_chunks' = IF chunk # <<>> THEN Append(split_chunks, chunk)
                                  ELSE split_chunks
               /\ spans' = Append(spans, [start |-> start, end |-> end,
                                          lo |-> PyClamp(text, start),
                                          hi |-> PyClamp(text, end),
                                          kept |-> chunk # <<>>])
               /\ start' = end - split_overlap
               /\ spc' = IF end - split_overlap >= Len(text) THEN "done" ELSE "loop"
    /\ UNCHANGED <<text, split_chunk_size, split_overlap>>

----------------------------------------------------------------------------
(* parse_llm_response and steps 6-7 of process_query (main.py), beside      *)
(* _parse_response.  A response is a text as above; to the JSON parser it   *)
(* is its characters, the lines joined by a blank (a newline is whitespace  *)
(* to strip() and to json.loads).  The members of a JSON object are one     *)
(* token: "m:high" and "m:certain" hold the four required fields, with      *)
(* confidence "high" and "certain"; "m:answer-only" holds "answer" alone.   *)

RECURSIVE ResponseChars(_)
ResponseChars(txt) ==
    IF txt = <<>> THEN <<>>
    ELSE IF Len(txt) = 1 THEN LineWords(txt[1])
    ELSE LineWords(Head(txt)) \o <<" ">> \o ResponseChars(Tail(txt))

\* str.find(c)
Find(s, c) ==
    IF \E i \in 1..Len(s) : s[i] = c
    THEN (CHOOSE i \in 1..Len(s) : s[i] = c /\ \A j \in 1..(i - 1) : s[j] # c) - 1
    ELSE -1

\* the mutant of rfind: the first occurrence
RFindFirst(s, c) == Find(s, c)

\* str.rfind(c)
RFind(s, c) ==
    IF \E i \in 1..Len(s) : s[i] = c
    THEN (CHOOSE i \in 1..Len(s) : s[i] = c /\ \A j \in (i + 1)..Len(s) : s[j] # c) - 1
    ELSE -1

JsonMembers == {"m:high", "m:certain", "m:answer-only"}

\* main.py:197
required_fields == <<"answer", "supporting_clauses", "explanation", "confidence">>

NoObject ==
    [fields |-> {}, answer |-> <<>>, supporting_clauses |-> <<>>,
     explanation |-> <<>>, confidence |-> "none"]

\* the object the members m stand for
DecodeMembers(m) ==
    IF m \in {"m:high", "m:certain"}
    THEN [fields |-> {"answer", "supporting_clauses", "explanation", "confidence"},
          answer |-> <<"covered">>,
          supporting_clauses |-> << <<"clause 4">> >>,
          explanation |-> <<"because">>,
          confidence |-> IF m = "m:high" THEN "high" ELSE "certain"]
    ELSE [NoObject EXCEPT !.fields = {"answer"}, !.answer = <<"covered">>]

JsonInner(s) == SelectSeq(SubSeq(s, 2, Len(s) - 1), LAMBDA c : c # " ")

\* json.loads(s) succeeds on a string that starts with '{' and ends with '}'
IsJsonObject(s) ==
    /\ Len(s) >= 2 /\ s[1] = "{" /\ s[Len(s)] = "}"
    /\ \/ JsonInner(s) = <<>>
       \/ Len(JsonInner(s)) = 1 /\ JsonInner(s)[1] \in JsonMembers

\* json.loads(s)
json_loads(s) ==
    IF JsonInner(s) = <<>> THEN NoObject ELSE DecodeMembers(JsonInner(s)[1])

\* dict.get(field, default)
Get(obj, field, default) == IF field \in obj.fields THEN obj[field] ELSE default

Returned(value) == [kind |-> "return", exc |-> "none", value |-> value]
Raised(exc) == [kind |-> "raise", exc |-> exc, value |-> NoObject]
NotParsed == [kind |-> "none", exc |-> "none", value |-> NoObject]

\* main.py:182-202, the body of the try
ParseBody(response_text) ==
    LET cleaned_response == Strip(response_text)
        start_idx == Find(cleaned_response, "{")
        end_idx == RFind(cleaned_response, "}") + 1
        json_str == PySlice(cleaned_response, start_idx, end_idx)
    IN IF start_idx = -1 \/ end_idx = 0 THEN Raised("ValueError")
       ELSE IF ~IsJsonObject(json_str) THEN Raised("JSONDecodeError")
       ELSE IF \E k \in 1..Len(required_fields) :
                   required_fields[k] \notin json_loads(json_str).fields
            THEN Raised("ValueError")
       ELSE Returned(json_loads(json_str))

\* main.py:204-210, the except clauses
ExceptClauses(out) ==
    IF out.kind = "raise"
    THEN IF out.exc = "JSONDecodeError" THEN Raised("ValueError")
         ELSE Raised("ValueError")
    ELSE out

parse_llm_response(response_text) == ExceptClauses(ParseBody(response_text))

NoQueryOutcome ==
    [kind |-> "none", status |-> 0, answer |-> <<>>, supporting_clauses |-> <<>>,
     explanation |-> <<>>, confidence |-> "none"]

\* main.py:321-336 (models.py:92-116)
QueryResponse(parsed) ==
    [kind |-> "QueryResponse", status |-> 200,
     answer |-> Get(parsed, "answer", <<>>),
     supporting_clauses |-> Get(parsed, "supporting_clauses", <<>>),
     explanation |-> Get(parsed, "explanation", <<>>),
     confidence |-> Get(parsed, "confidence", "medium")]

\* main.py:341-361
QueryErrorResponse(error, status) ==
    [NoQueryOutcome EXCEPT !.kind = error, !.status = status]

\* main.py:317-361
process_query_parse(parsed) ==
    IF parsed.kind = "return" THEN QueryResponse(parsed.value)
    ELSE IF parsed.exc = "ValueError" THEN QueryErrorResponse("validation_error", 422)
    ELSE QueryErrorResponse("processing_error", 500)

\* models.py:92-116 and models.py:55-63
QueryResponseFields ==
    {"answer", "supporting_clauses", "explanation", "confidence", "query_id",
     "timestamp"}
HackRxQuestionResponseFields ==
    {"question", "answer", "confidence", "supporting_evidence"}

NoAnswer ==
    [question |-> "none", answer |-> <<>>, confidence |-> "none",
     supporting_evidence |-> <<>>]

\* the responses of the JSON dialect: prose, an object or none, prose
ProseTokens == {"p", " ", "{", "}"}
JsonBodies ==
    {<<>>, <<"{", "}">>, <<"{", "m:high", "}">>, <<"{", "m:certain", "}">>,
     <<"{", "m:answer-only", "}">>, <<"{", " ", "m:high", " ", "}">>}
JsonDialectTexts ==
    {<<Line("none", pre \o body \o post)>> :
        pre \in SeqsUpTo(ProseTokens, MaxProse), body \in JsonBodies,
        post \in SeqsUpTo(ProseTokens, MaxProse)}

\* the responses of the labeled-line dialect
LabeledLines ==
    {Line("answer", <<"covered">>), Line("confidence", <<"HIGH">>),
     Line("confidence", <<"certain">>), Line("evidence", <<"clause 4">>),
     Line("none", <<"it depends">>), BlankLine}
LabeledDialectTexts == SeqsUpTo(LabeledLines, MaxLines)

ParseIdle ==
    /\ ppc = "idle" /\ llm_response = <<>> /\ parsed_response = NotParsed
    /\ query_outcome = NoQueryOutcome /\ labeled_outcome = NoAnswer

InitParse ==
    /\ ppc = "received"
    /\ llm_response \in JsonDialectTexts \cup LabeledDialectTexts
    /\ parsed_response = NotParsed
    /\ query_outcome = NoQueryOutcome /\ labeled_outcome = NoAnswer

\* main.py:317-361: the response goes through parse_llm_response
ProcessQueryParse ==
    /\ ppc \in {"received", "labeled_parsed"}
    /\ parsed_response' = parse_llm_response(ResponseChars(llm_response))
    /\ query_outcome' = process_query_parse(parse_llm_response(ResponseChars(llm_response)))
    /\ ppc' = IF ppc = "received" THEN "json_parsed" ELSE "done"
    /\ UNCHANGED <<llm_response, labeled_outcome>>

\* simple_gemini_manager.py:143-192: the response goes through _parse_response
ParseLabeled ==
    /\ ppc \in {"received", "json_parsed"}
    /\ labeled_outcome' = parse_response(llm_response, "q1")
    /\ ppc' = IF ppc = "received" THEN "labeled_parsed" ELSE "done"
    /\ UNCHANGED <<llm_response, parsed_response, query_outcome>>

----------------------------------------------------------------------------
(* SimpleEmbeddingManager._generate_dummy_embedding called from several     *)
(* threads.  The module random holds one generator for the whole process:   *)
(* rng_state.  random.seed and each random.uniform are steps of their own,  *)
(* and steps of different threads interleave.  The generator is             *)
(* a congruential one over 0..4, a draw is its new state moved to -2..2.    *)

Threads == 1..MaxThreads
EmbedTexts == {"X", "Y"}

\* hashlib.md5(text.encode()).hexdigest(), the seed of the text
TextHash(txt) == IF txt = "X" THEN 0 ELSE 3

\* one step of the generator
Advance(state) == (2 * state + 1) % 5

\* random.uniform(-1.0, 1.0) read off the generator's state
Uniform(state) == state - 2

\* simple_embedding_manager.py:57-59: the vector x / sqrt(m), or x when the
\* magnitude is 0
Normalize(x) ==
    [x |-> x, m |-> SumTo([i \in 1..Len(x) |-> x[i] * x[i]], Len(x))]

NoEmbedding == [x |-> <<>>, m |-> 0]

\* two normalised vectors are the same list of floats
SameEmbedding(a, b) ==
    /\ Len(a.x) = Len(b.x)
    /\ (a.m = 0) = (b.m = 0)
    /\ \A i \in 1..Len(a.x) :
          a.x[i] * Abs(a.x[i]) * b.m = b.x[i] * Abs(b.x[i]) * a.m

RECURSIVE DrawsFrom(_, _)
DrawsFrom(state, n) ==
    IF n = 0 THEN <<>>
    ELSE <<Uniform(Advance(state))>> \o DrawsFrom(Advance(state), n - 1)

\* _generate_dummy_embedding run alone, with no other thread
generate_dummy_embedding(txt) == Normalize(DrawsFrom(TextHash(txt), MaxEmbeddingSize))

EmbedIdle ==
    /\ rng_state = 0 /\ epc = <<>> /\ embed_text = <<>> /\ embedding = <<>>
    /\ embedded = <<>> /\ ncalls = <<>>

InitEmbed ==
    /\ rng_state \in 0..4
    /\ epc = [t \in Threads |-> "idle"]
    /\ embed_text = [t \in Threads |-> "X"]
    /\ embedding = [t \in Threads |-> <<>>]
    /\ embedded = [t \in Threads |-> NoEmbedding]
    /\ ncalls = [t \in Threads |-> 0]

\* a thread calls encode(text) with no model loaded
\* (simple_embedding_manager.py:63-76)
EmbedCall(t) ==
    /\ epc[t] \in {"idle", "returned"}
    /\ ncalls[t] < MaxCalls
    /\ \E txt \in EmbedTexts : embed_text' = [embed_text EXCEPT ![t] = txt]
    /\ epc' = [epc EXCEPT ![t] = "seed"]
    /\ ncalls' = [ncalls EXCEPT ![t] = @ + 1]
    /\ embedding' = [embedding EXCEPT ![t] = <<>>]
    /\ UNCHANGED <<rng_state, embedded>>

\* simple_embedding_manager.py:48-51
EmbedSeed(t) ==
    /\ epc[t] = "seed"
    /\ rng_state' = TextHash(embed_text[t])
    /\ epc' = [epc EXCEPT ![t] = "draw"]
    /\ UNCHANGED <<embed_text, embedding, embedded, ncalls>>

\* simple_embedding_manager.py:54, one element of the list
EmbedDraw(t) ==
    /\ epc[t] = "draw"
    /\ Len(embedding[t]) < MaxEmbeddingSize
    /\ rng_state' = Advance(rng_state)
    /\ embedding' = [embedding EXCEPT ![t] = Append(@, Uniform(Advance(rng_state)))]
    /\ UNCHANGED <<epc, embed_text, embedded, ncalls>>

\* simple_embedding_manager.py:56-61
EmbedReturn(t) ==
    /\ epc[t] = "draw"
    /\ Len(embedding[t]) = MaxEmbeddingSize
    /\ embedded' = [embedded EXCEPT ![t] = Normalize(embedding[t])]
    /\ epc' = [epc EXCEPT ![t] = "returned"]
    /\ UNCHANGED <<rng_state, embed_text, embedding, ncalls>>

----------------------------------------------------------------------------
(* Text extraction: extract_text_from_pdf_improved,                         *)
(* DocumentProcessor._extract_text_from_pdf,                                *)
(* SimpleDocumentProcessor.extract_text_from_pdf and the dispatch of        *)
(* process_document_from_url.  What a library does with the file is an      *)
(* input: opening it raises, its pages hold no text, their text is          *)
(* corrupted (clean_extracted_text returns ""), or they hold text.          *)

Strategies == {"pdfplumber", "pymupdf", "blocks", "pypdf"}
LibraryOutcomes == {"open_raises", "no_text", "corrupted", "text"}
Extractors ==
    {"extract_text_from_pdf_improved", "_extract_text_from_pdf",
     "extract_text_from_pdf", "process_document_from_url"}
SourceFormats == {"pdf", "txt", "docx"}

\* the value a call ends with
Extracted(kind, by) == [kind |-> kind, by |-> by]
NotExtracted == Extracted("none", "none")

\* SimpleDocumentProcessor.extract_text_from_pdf
\* (simple_document_processor.py:57-100): one library, the first available
simple_extract(libs, outcome) ==
    IF "mupdf" \in libs
    THEN [attempted |-> <<"pymupdf">>,
          result |-> IF outcome["pymupdf"] = "open_raises"
                     THEN Extracted("raise", "pymupdf")
                     ELSE IF outcome["pymupdf"] = "no_text"
                          THEN Extracted("empty", "pymupdf")
                          ELSE Extracted("text", "pymupdf")]
    ELSE IF "pypdf" \in libs
    THEN [attempted |-> <<"pypdf">>,
          result |-> IF outcome["pypdf"] = "open_raises"
                     THEN Extracted("raise", "pypdf")
                     ELSE IF outcome["pypdf"] = "no_text"
                          THEN Extracted("empty", "pypdf")
                          ELSE Extracted("text", "pypdf")]
    ELSE [attempted |-> <<>>, result |-> Extracted("raise", "none")]

ExtractIdle ==
    /\ xpc = "idle" /\ extractor = "none" /\ source_format = "none"
    /\ available = {} /\ library = <<>> /\ file_extension = "none"
    /\ dispatched = "none" /\ attempted = <<>> /\ text_content = <<>>
    /\ extract_result = NotExtracted

\* a file that is no PDF gives no text to a PDF library
InitExtract ==
    /\ extractor \in Extractors
    /\ source_format \in
          IF extractor = "process_document_from_url" THEN SourceFormats ELSE {"pdf"}
    /\ available \in
          IF extractor \in {"process_document_from_url", "extract_text_from_pdf"}
          THEN SUBSET {"mupdf", "pypdf"} ELSE {{"mupdf", "pypdf"}}
    /\ library \in [Strategies -> LibraryOutcomes]
    /\ source_format # "pdf" =>
          \A s \in Strategies : library[s] \in {"open_raises", "no_text"}
    /\ xpc = "call"
    /\ file_extension = "none" /\ dispatched = "none" /\ attempted = <<>>
    /\ text_content = <<>> /\ extract_result = NotExtracted

\* improved_pdf_extractor.py:15-37, Method 1
ImprovedMethod1 ==
    /\ xpc = "call" /\ extractor = "extract_text_from_pdf_improved"
    /\ attempted' = Append(attempted, "pdfplumber")
    /\ IF library["pdfplumber"] = "open_raises"
       THEN /\ extract_result' = Extracted("empty", "none")
            /\ xpc' = "done"
            /\ UNCHANGED text_content
       ELSE /\ text_content' = IF library["pdfplumber"] = "text"
                               THEN <<"pdfplumber">> ELSE <<>>
            /\ xpc' = "method2"
            /\ UNCHANGED extract_result
    /\ UNCHANGED <<extractor, source_format, available, library, file_extension,
                   dispatched>>

\* improved_pdf_extractor.py:39-61, Method 2
ImprovedMethod2 ==
    /\ xpc = "method2" /\ extractor = "extract_text_from_pdf_improved"
    /\ IF text_content # <<>>
       THEN /\ xpc' = "method3"
            /\ UNCHANGED <<attempted, text_content, extract_result>>
       ELSE /\ attempted' = Append(attempted, "pymupdf")
            /\ IF library["pymupdf"] = "open_raises"
               THEN /\ extract_result' = Extracted("empty", "none")
                    /\ xpc' = "done"
                    /\ UNCHANGED text_content
               ELSE /\ text_content' = IF library["pymupdf"] = "text"
                                       THEN <<"pymupdf">> ELSE <<>>
                    /\ xpc' = "method3"
                    /\ UNCHANGED extract_result
    /\ UNCHANGED <<extractor, source_format, available, library, file_extension,
                   dispatched>>

\* improved_pdf_extractor.py:63-68, Method 3 (extract_text_blocks, 114-148)
\* and the return
ImprovedMethod3 ==
    /\ xpc = "method3" /\ extractor = "extract_text_from_pdf_improved"
    /\ IF text_content # <<>>
       THEN /\ extract_result' = Extracted("text", text_content[1])
            /\ UNCHANGED <<attempted, text_content>>
       ELSE /\ attempted' = Append(attempted, "blocks")
            /\ text_content' = IF library["blocks"] = "text" THEN <<"blocks">> ELSE <<>>
            /\ extract_result' = IF library["blocks"] = "text"
                                 THEN Extracted("text", "blocks")
                                 ELSE Extracted("empty", "none")
    /\ xpc' = "done"
    /\ UNCHANGED <<extractor, source_format, available, library, file_extension,
                   dispatched>>

\* document_processor.py:165-173, Method 1: pages are kept as they are read
DocMethod1 ==
    /\ xpc = "call" /\ extractor = "_extract_text_from_pdf"
    /\ attempted' = Append(attempted, "pymupdf")
    /\ IF library["pymupdf"] = "open_raises"
       THEN /\ extract_result' = Extracted("raise", "pymupdf")
            /\ xpc' = "done"
            /\ UNCHANGED text_content
       ELSE /\ text_content' = IF library["pymupdf"] \in {"text", "corrupted"}
                               THEN <<"pymupdf">> ELSE <<>>
            /\ xpc' = "method2"
            /\ UNCHANGED extract_result
    /\ UNCHANGED <<extractor, source_format, available, library, file_extension,
                   dispatched>>

\* document_processor.py:175-190, the alternative and the return
DocMethod2 ==
    /\ xpc = "method2" /\ extractor = "_extract_text_from_pdf"
    /\ IF text_content # <<>>
       THEN /\ extract_result' = Extracted("text", text_content[1])
            /\ UNCHANGED <<attempted, text_content>>
       ELSE /\ attempted' = Append(attempted, "pdfplumber")
            /\ text_content' = IF library["pdfplumber"] \in {"text", "corrupted"}
                               THEN <<"pdfplumber">> ELSE <<>>
            /\ extract_result' =
                  IF library["pdfplumber"] = "open_raises"
                  THEN Extracted("raise", "pdfplumber")
                  ELSE IF library["pdfplumber"] = "no_text"
                       THEN Extracted("empty", "none")
                       ELSE Extracted("text", "pdfplumber")
    /\ xpc' = "done"
    /\ UNCHANGED <<extractor, source_format, available, library, file_extension,
                   dispatched>>

\* simple_document_processor.py:57-68
SimpleExtract ==
    /\ xpc = "call" /\ extractor = "extract_text_from_pdf"
    /\ attempted' = simple_extract(available, library).attempted
    /\ extract_result' = simple_extract(available, library).result
    /\ xpc' = "done"
    /\ UNCHANGED <<extractor, source_format, available, library, file_extension,
                   dispatched, text_content>>

\* simple_document_processor.py:38-55 and 162-165: the temporary file is
\* always created with suffix '.pdf'
UrlDownload ==
    /\ xpc = "call" /\ extractor = "process_document_from_url"
    /\ \E downloaded \in BOOLEAN :
          IF downloaded
          THEN /\ file_extension' = ".pdf"
               /\ xpc' = "dispatch"
               /\ UNCHANGED extract_result
          ELSE /\ extract_result' = Extracted("raise", "download")
               /\ xpc' = "done"
               /\ UNCHANGED file_extension
    /\ UNCHANGED <<extractor, source_format, available, library, dispatched,
                   attempted, text_content>>

\* simple_document_processor.py:167-173
UrlDispatch ==
    /\ xpc = "dispatch" /\ extractor = "process_document_from_url"
    /\ IF file_extension = ".pdf"
       THEN /\ dispatched' = "extract_text_from_pdf"
            /\ attempted' = simple_extract(available, library).attempted
            /\ extract_result' = simple_extract(available, library).result
       ELSE IF file_extension = ".txt"
       THEN /\ dispatched' = "extract_text_from_txt"
            /\ extract_result' = Extracted("text", "txt")
            /\ UNCHANGED attempted
       ELSE /\ dispatched' = "Unsupported file type"
            /\ extract_result' = Extracted("raise", "none")
            /\ UNCHANGED attempted
    /\ xpc' = "done"
    /\ UNCHANGED <<extractor, source_format, available, library, file_extension,
                   text_content>>

----------------------------------------------------------------------------
(* /hackrx/run requests on one event loop.  hackrx_run is a coroutine; the  *)
(* event loop thread runs one task until the task awaits something that is  *)
(* not finished.  download_document calls requests.get                      *)
(* (simple_document_processor.py:42), extraction and encode_batch are plain *)
(* calls, and generate_response calls generate_content                      *)
(* (simple_gemini_manager.py:88): none of the coroutines hackrx_run awaits  *)
(* awaits a pending future, so each call below is made, and waited for, on  *)
(* the event loop thread.  rpc[r] names the call request r is inside.       *)

Requests == 1..MaxRequests
IOPhases == {"download", "extract", "embed", "generate"}

AsyncIdle == loop_task = 0 /\ rpc = <<>> /\ rleft = <<>>

InitAsync ==
    /\ loop_task = 0
    /\ rpc = [r \in Requests |-> "not_sent"]
    /\ rleft = [r \in Requests |-> 0]

\* a client posts a request: its task is ready to run
ReqArrive(r) ==
    /\ rpc[r] = "not_sent"
    /\ \E n \in 1..MaxQuestions : rleft' = [rleft EXCEPT ![r] = n]
    /\ rpc' = [rpc EXCEPT ![r] = "ready"]
    /\ UNCHANGED loop_task

\* the event loop starts the task; it runs to main_hackrx.py:158 and into
\* requests.get (simple_document_processor.py:42)
ReqStart(r) ==
    /\ loop_task = 0
    /\ rpc[r] = "ready"
    /\ loop_task' = r
    /\ rpc' = [rpc EXCEPT ![r] = "download"]
    /\ UNCHANGED rleft

\* requests.get returns or raises (simple_document_processor.py:42-55)
ReqDownloaded(r) ==
    /\ loop_task = r /\ rpc[r] = "download"
    /\ \E ok \in BOOLEAN :
          rpc' = [rpc EXCEPT ![r] = IF ok THEN "extract" ELSE "respond"]
    /\ UNCHANGED <<loop_task, rleft>>

\* extraction, cleaning and chunking return
\* (simple_document_processor.py:165-188, main_hackrx.py:160-169)
ReqExtracted(r) ==
    /\ loop_task = r /\ rpc[r] = "extract"
    /\ \E ok \in BOOLEAN :
          rpc' = [rpc EXCEPT ![r] = IF ok THEN "embed" ELSE "respond"]
    /\ UNCHANGED <<loop_task, rleft>>

\* encode_batch returns (main_hackrx.py:178)
ReqEmbedded(r) ==
    /\ loop_task = r /\ rpc[r] = "embed"
    /\ rpc' = [rpc EXCEPT ![r] = "generate"]
    /\ UNCHANGED <<loop_task, rleft>>

\* the generation call of one question returns (main_hackrx.py:184-234)
ReqGenerated(r) ==
    /\ loop_task = r /\ rpc[r] = "generate"
    /\ rleft' = [rleft EXCEPT ![r] = @ - 1]
    /\ rpc' = [rpc EXCEPT ![r] = IF rleft[r] = 1 THEN "respond" ELSE "generate"]
    /\ UNCHANGED loop_task

\* the response is returned and the task ends (main_hackrx.py:236-262)
ReqRespond(r) ==
    /\ loop_task = r /\ rpc[r] = "respond"
    /\ rpc' = [rpc EXCEPT ![r] = "done"]
    /\ loop_task' = 0
    /\ UNCHANGED rleft

\* a step of the task of request r
ReqProgress(r) ==
    \/ ReqStart(r) \/ ReqDownloaded(r) \/ ReqExtracted(r) \/ ReqEmbedded(r)
    \/ ReqGenerated(r) \/ ReqRespond(r)

----------------------------------------------------------------------------
(* POST /query: the request body goes through QueryRequest (models.py) and, *)
(* when it validates, through process_query (main.py).  A query string is   *)
(* kept run-length encoded: a sequence of runs, each a character and the    *)
(* number of times it is repeated, so that strings around max_length are    *)
(* small values.  qcalls logs the calls made to the external services.      *)

\* models.py:13  min_length=1
min_length == 1
\* models.py:14  max_length=1000
max_length == 1000

RunLens == {1, max_length - 1, max_length}
Runs == [c : {"a", " "}, n : RunLens]
QueryStrings == SeqsUpTo(Runs, MaxRuns)

\* the JSON body of the request: the field may be missing
QueryBodies ==
    {[present |-> FALSE, query |-> <<>>]}
        \cup {[present |-> TRUE, query |-> s] : s \in QueryStrings}

\* len(v)
RECURSIVE RunLen(_)
RunLen(v) == IF v = <<>> THEN 0 ELSE Head(v).n + RunLen(Tail(v))

\* v.lstrip(), v.rstrip(), v.strip()
RECURSIVE RunLStrip(_)
RunLStrip(v) ==
    IF v # <<>> /\ Head(v).c = " " THEN RunLStrip(Tail(v)) ELSE v
RECURSIVE RunRStrip(_)
RunRStrip(v) ==
    IF v # <<>> /\ v[Len(v)].c = " " THEN RunRStrip(SubSeq(v, 1, Len(v) - 1))
    ELSE v
RunStrip(v) == RunRStrip(RunLStrip(v))

\* a validator that returns the value as it came
validate_query_unstripped(v) ==
    IF RunStrip(v) = <<>> THEN [ok |-> FALSE, query |-> <<>>]
    ELSE [ok |-> TRUE, query |-> v]

\* models.py:18-23
validate_query(v) ==
    IF RunStrip(v) = <<>> THEN [ok |-> FALSE, query |-> <<>>]
    ELSE [ok |-> TRUE, query |-> RunStrip(v)]

\* models.py:9-23: the field is required, its length is checked, then the
\* validator runs
QueryRequest(body) ==
    IF ~body.present THEN [ok |-> FALSE, query |-> <<>>]
    ELSE IF RunLen(body.query) < min_length \/ RunLen(body.query) > max_length
         THEN [ok |-> FALSE, query |-> <<>>]
    ELSE validate_query(body.query)

\* what a call to an external service does
CallOutcomes == {"ok", "ValueError", "Exception"}
\* pinecone_manager.search_similar: no result, results without text, results
SearchOutcomes == CallOutcomes \cup {"no_results", "no_text"}

\* main.py:341-361: the except clauses of process_query
QueryExceptStatus(exc) == IF exc = "ValueError" THEN 422 ELSE 500

\* the statuses steps 6-7 of process_query can end with
QueryParseStatuses ==
    {process_query_parse(parse_llm_response(ResponseChars(t))).status :
        t \in JsonDialectTexts}

QueryIdle ==
    /\ qpc = "idle" /\ query_body = [present |-> FALSE, query |-> <<>>]
    /\ request_query = <<>> /\ qcalls = <<>> /\ qstatus = 0

InitQuery ==
    /\ qpc = "posted" /\ query_body \in QueryBodies
    /\ request_query = <<>> /\ qcalls = <<>> /\ qstatus = 0

\* the framework builds QueryRequest from the body and answers 422 itself
\* when that fails; process_query is entered otherwise (main.py:238-262)
QueryValidate ==
    /\ qpc = "posted"
    /\ IF QueryRequest(query_body).ok
       THEN /\ qpc' = "encode"
            /\ request_query' = QueryRequest(query_body).query
            /\ qstatus' = 0
       ELSE /\ qpc' = "done"
            /\ request_query' = <<>>
            /\ qstatus' = 422
    /\ UNCHANGED <<query_body, qcalls>>

\* main.py:262-265  embedding_manager.encode(request.query)
QueryEncode ==
    /\ qpc = "encode"
    /\ \E out \in CallOutcomes :
        /\ qcalls' = Append(qcalls, [call |-> "encode", arg |-> request_query])
        /\ qpc' = IF out = "ok" THEN "search" ELSE "done"
        /\ qstatus' = IF out = "ok" THEN 0 ELSE QueryExceptStatus(out)
    /\ UNCHANGED <<query_body, request_query>>

\* main.py:267-307  search_similar and the conversion of its results
QuerySearch ==
    /\ qpc = "search"
    /\ \E out \in SearchOutcomes :
        /\ qcalls' = Append(qcalls, [call |-> "search_similar", arg |-> <<>>])
        /\ qpc' = IF out = "ok" THEN "generate" ELSE "done"
        /\ qstatus' = IF out = "ok" THEN 0
                      ELSE IF out \in {"no_results", "no_text"} THEN 404
                      ELSE QueryExceptStatus(out)
    /\ UNCHANGED <<query_body, request_query>>

\* main.py:309-315  construct_llm_prompt and generate_response
QueryGenerate ==
    /\ qpc = "generate"
    /\ \E out \in CallOutcomes :
        /\ qcalls' = Append(qcalls, [call |-> "generate_response",
                                     arg |-> request_query])
        /\ qpc' = IF out = "ok" THEN "parse" ELSE "done"
        /\ qstatus' = IF out = "ok" THEN 0 ELSE QueryExceptStatus(out)
    /\ UNCHANGED <<query_body, request_query>>

\* main.py:317-339  the response is parsed and returned
QueryRespond ==
    /\ qpc = "parse"
    /\ qstatus' \in QueryParseStatuses
    /\ qpc' = "done"
    /\ UNCHANGED <<query_body, request_query, qcalls>>

----------------------------------------------------------------------------
(* The document service of main.py: upload_document, reprocess_document,    *)
(* delete_document and list_documents over DocumentProcessor, and the       *)
(* ingestion by url of SimpleDocumentProcessor.  The state outside the      *)
(* handlers is the file system (files), the two tables (metadata_rows,      *)
(* chunk_rows), the vector index (index_vectors) and the sessions obtained  *)
(* from the session factory and not closed (open_sessions).  Requests are   *)
(* served one at a time; a call to an external service succeeds or raises,  *)
(* and a row is in a table once the commit that wrote it has succeeded.     *)

DocIds == 1..MaxDocs
Paths == 1..MaxFiles
\* document_processor.py:280  chunk_id = f"{document_id}_chunk_{chunk_index}"
ChunkId(d, k) == <<d, k>>
ChunkIds(d, n) == {ChunkId(d, k) : k \in 0..(n - 1)}

\* main.py:414 and document_processor.py:55
supported_extensions == {".pdf", ".docx", ".doc", ".txt", ".csv"}
\* the suffix of an uploaded file name; "" when there is no file name
UploadNames == {"", ".exe", ".pdf"}

\* database.py:42-75: a row of DocumentMetadata, or no row for this id
NoRow == [status |-> "absent", chunk_count |-> 0, file_path |-> 0]
\* document_processor.py:398-407
DocumentMetadata(path) ==
    [status |-> "processing", chunk_count |-> 0, file_path |-> path]
\* database.py:78-101: a row of DocumentChunk
DocumentChunk(id, d, flag) ==
    [chunk_id |-> id, document_id |-> d, embedding_generated |-> flag]

NoRequest == [kind |-> "none", doc |-> 0, name |-> "", completed |-> FALSE]
NoSvcResponse == [status |-> 0, result |-> "none"]
SvcResponse(status, result) == [status |-> status, result |-> result]

StoreIdle ==
    /\ dpc = "off" /\ svc_request = NoRequest /\ svc_response = NoSvcResponse
    /\ files = {} /\ metadata_rows = [d \in DocIds |-> NoRow]
    /\ chunk_rows = {} /\ index_vectors = {} /\ open_sessions = 0
    /\ document_id = 0 /\ proc_path = 0 /\ proc_chunks = 0 /\ temp_path = 0
    /\ served = 0

InitStore ==
    /\ dpc = "idle" /\ svc_request = NoRequest /\ svc_response = NoSvcResponse
    /\ files = {} /\ metadata_rows = [d \in DocIds |-> NoRow]
    /\ chunk_rows = {} /\ index_vectors = {} /\ open_sessions = 0
    /\ document_id = 0 /\ proc_path = 0 /\ proc_chunks = 0 /\ temp_path = 0
    /\ served = 0

\* the locals of a handler, left alone by a step
storeLocals == <<document_id, proc_path, proc_chunks, temp_path>>
storeTables == <<metadata_rows, chunk_rows, index_vectors>>

\* an unused name for a temporary file (tempfile.NamedTemporaryFile)
FreshPath == CHOOSE p \in Paths : p \notin files
\* uuid.uuid4(): an id no document has had
FreshDoc == document_id + 1

\* a request reaches one of the endpoints
SvcRequest ==
    /\ dpc = "idle" /\ served < MaxServed
    /\ served' = served + 1
    /\ svc_response' = NoSvcResponse
    /\ \/ \E nm \in UploadNames :
            /\ FreshDoc \in DocIds
            /\ svc_request' = [NoRequest EXCEPT !.kind = "upload", !.name = nm]
            /\ dpc' = "upload"
       \/ \E d \in DocIds :
            /\ FreshDoc \in DocIds
            /\ svc_request' =
                 [NoRequest EXCEPT !.kind = "reprocess", !.doc = d,
                     !.completed = (metadata_rows[d].status = "completed")]
            /\ dpc' = "reprocess"
       \/ \E d \in DocIds :
            /\ svc_request' = [NoRequest EXCEPT !.kind = "delete", !.doc = d]
            /\ dpc' = "delete"
       \/ /\ svc_request' = [NoRequest EXCEPT !.kind = "list"]
          /\ dpc' = "list"
       \/ /\ svc_request' = [NoRequest EXCEPT !.kind = "url"]
          /\ dpc' = "url"
    /\ UNCHANGED <<files, storeTables, open_sessions, storeLocals>>

\* main.py:413-431  upload_document up to the temporary file
UploadStore ==
    /\ dpc = "upload"
    /\ IF svc_request.name \notin supported_extensions
       THEN /\ svc_response' = SvcResponse(400, "error")
            /\ dpc' = "idle"
            /\ UNCHANGED <<files, temp_path, proc_path>>
       ELSE /\ files # Paths
            /\ files' = files \cup {FreshPath}
            /\ \/ \* shutil.copyfileobj raises
                  /\ svc_response' = SvcResponse(500, "error")
                  /\ dpc' = "idle"
                  /\ UNCHANGED <<temp_path, proc_path>>
               \/ /\ temp_path' = FreshPath
                  /\ proc_path' = FreshPath
                  /\ dpc' = "process"
                  /\ UNCHANGED svc_response
    /\ UNCHANGED <<svc_request, storeTables, open_sessions, document_id,
                   proc_chunks, served>>

\* document_processor.py:76-95 and 386-420  process_document up to the
\* metadata record
ProcCreate ==
    /\ dpc = "process" /\ FreshDoc \in DocIds
    /\ document_id' = FreshDoc
    /\ proc_chunks' = 0
    /\ \/ /\ proc_path \notin files
          /\ dpc' = "except"
          /\ UNCHANGED metadata_rows
       \/ /\ proc_path \in files
          /\ \/ \* os.stat or db.commit raises, the row is rolled back
                /\ dpc' = "except"
                /\ UNCHANGED metadata_rows
             \/ /\ metadata_rows' =
                     [metadata_rows EXCEPT ![FreshDoc] = DocumentMetadata(proc_path)]
                /\ dpc' = "extract"
    /\ UNCHANGED <<svc_request, svc_response, files, chunk_rows, index_vectors,
                   open_sessions, proc_path, temp_path, served>>

\* document_processor.py:97-105  _extract_text and _create_chunks
ProcExtract ==
    /\ dpc = "extract"
    /\ \/ \* extraction raises, or the text is blank
          /\ dpc' = "except"
          /\ UNCHANGED proc_chunks
       \/ \E n \in 0..MaxDocChunks :
            /\ proc_chunks' = n
            /\ dpc' = "embeddings"
    /\ UNCHANGED <<svc_request, svc_response, files, storeTables,
                   open_sessions, document_id, proc_path, temp_path, served>>

\* where _process_embeddings can raise
EmbeddingFailures == {"none", "commit_rows", "encode_batch", "upsert", "commit_flags"}

\* document_processor.py:323-384  _process_embeddings: the rows are added and
\* committed, the texts are encoded, every row is flagged, the vectors are
\* upserted, the flags are committed; an exception rolls back what is not
\* committed
process_embeddings(d, n, failure) ==
    [chunk_rows |->
        IF failure = "commit_rows" THEN chunk_rows
        ELSE chunk_rows \cup
                {DocumentChunk(id, d, failure = "none") : id \in ChunkIds(d, n)},
     index_vectors |->
        IF failure \in {"none", "commit_flags"}
        THEN index_vectors \cup ChunkIds(d, n)
        ELSE index_vectors,
     raised |-> failure # "none"]

\* document_processor.py:107-109
ProcEmbeddings ==
    /\ dpc = "embeddings"
    /\ \E failure \in EmbeddingFailures :
        LET out == process_embeddings(document_id, proc_chunks, failure)
        IN /\ chunk_rows' = out.chunk_rows
           /\ index_vectors' = out.index_vectors
           /\ dpc' = IF out.raised THEN "except" ELSE "complete"
    /\ UNCHANGED <<svc_request, svc_response, files, metadata_rows,
                   open_sessions, storeLocals, served>>

\* document_processor.py:422-448  _update_document_status: the row is
\* changed when it exists and the commit succeeds; an exception is logged
update_document_status(d, new_status, count, committed) ==
    IF d \in DocIds /\ metadata_rows[d].status # "absent" /\ committed
    THEN [metadata_rows EXCEPT ![d].status = new_status, ![d].chunk_count = count]
    ELSE metadata_rows

\* what process_document hands to its caller
AfterProcess(result) ==
    IF svc_request.kind = "upload" THEN "upload_finally"
    ELSE IF result = "completed" THEN "respond_ok" ELSE "respond_error"

\* document_processor.py:111-133  the status is updated, the result returned
ProcComplete ==
    /\ dpc = "complete"
    /\ \E committed \in BOOLEAN :
        metadata_rows' =
            update_document_status(document_id, "completed", proc_chunks, committed)
    /\ svc_response' = SvcResponse(0, "completed")
    /\ dpc' = AfterProcess("completed")
    /\ UNCHANGED <<svc_request, files, chunk_rows, index_vectors,
                   open_sessions, storeLocals, served>>

\* document_processor.py:135-138  except Exception
ProcExcept ==
    /\ dpc = "except"
    /\ \E committed \in BOOLEAN :
        metadata_rows' = update_document_status(document_id, "failed", 0, committed)
    /\ svc_response' = SvcResponse(0, "DocumentProcessingError")
    /\ dpc' = AfterProcess("raised")
    /\ UNCHANGED <<svc_request, files, chunk_rows, index_vectors,
                   open_sessions, storeLocals, served>>

\* main.py:446-460  upload_document: the response, and the finally clause
UploadFinally ==
    /\ dpc = "upload_finally"
    /\ \/ files' = files \ {temp_path}
       \/ \* Path.unlink raises, which is logged
          files' = files
    /\ svc_response' =
         IF svc_response.result = "completed" THEN SvcResponse(200, "completed")
         ELSE SvcResponse(500, "error")
    /\ dpc' = "idle"
    /\ UNCHANGED <<svc_request, storeTables, open_sessions, storeLocals, served>>

\* main.py:588-611  reprocess_document up to close_db
ReprocessLookup ==
    /\ dpc = "reprocess"
    /\ LET doc == metadata_rows[svc_request.doc]
       IN IF doc.status = "absent"
          THEN /\ svc_response' = SvcResponse(404, "error")
               /\ open_sessions' = open_sessions + 1
               /\ dpc' = "idle"
          ELSE IF doc.file_path \notin files
          THEN /\ svc_response' = SvcResponse(400, "error")
               /\ open_sessions' = open_sessions + 1
               /\ dpc' = "idle"
          ELSE /\ UNCHANGED <<svc_response, open_sessions>>
               /\ dpc' = "reprocess_delete"
    /\ proc_path' = metadata_rows[svc_request.doc].file_path
    /\ UNCHANGED <<svc_request, files, storeTables, document_id, proc_chunks,
                   temp_path, served>>

\* where delete_document can raise
DeleteFailures == {"none", "index_delete", "commit"}

\* document_processor.py:450-490  delete_document: the vectors of the chunk
\* rows are deleted from the index, then the rows and the document in one
\* commit; without a document row nothing is committed
delete_document(d, failure) ==
    LET rows == {r \in chunk_rows : r.document_id = d}
        chunk_ids == {r.chunk_id : r \in rows}
        index_raised == chunk_ids # {} /\ failure = "index_delete"
        doc == metadata_rows[d].status # "absent"
        committed == ~index_raised /\ doc /\ failure # "commit"
    IN [index_vectors |->
            IF index_raised THEN index_vectors ELSE index_vectors \ chunk_ids,
        chunk_rows |-> IF committed THEN chunk_rows \ rows ELSE chunk_rows,
        metadata_rows |->
            IF committed THEN [metadata_rows EXCEPT ![d] = NoRow]
            ELSE metadata_rows,
        result |->
            IF index_raised \/ (doc /\ failure = "commit") THEN "raised"
            ELSE IF doc THEN "deleted" ELSE "error"]

\* main.py:613-615  reprocess_document: the existing data is deleted
ReprocessDelete ==
    /\ dpc = "reprocess_delete"
    /\ \E failure \in DeleteFailures :
        LET out == delete_document(svc_request.doc, failure)
        IN /\ index_vectors' = out.index_vectors
           /\ chunk_rows' = out.chunk_rows
           /\ metadata_rows' = out.metadata_rows
           /\ dpc' = IF out.result = "raised" THEN "respond_error" ELSE "process"
    /\ UNCHANGED <<svc_request, svc_response, files, open_sessions,
                   storeLocals, served>>

\* main.py:617-636  reprocess_document: the response
ReprocessRespond ==
    /\ dpc \in {"respond_ok", "respond_error"}
    /\ svc_response' =
         IF dpc = "respond_ok" THEN SvcResponse(200, "completed")
         ELSE SvcResponse(500, "error")
    /\ dpc' = "idle"
    /\ UNCHANGED <<svc_request, files, storeTables, open_sessions,
                   storeLocals, served>>

\* main.py:559-582  DELETE /documents/{document_id}
DeleteRequest ==
    /\ dpc = "delete"
    /\ \E failure \in DeleteFailures :
        LET out == delete_document(svc_request.doc, failure)
        IN /\ index_vectors' = out.index_vectors
           /\ chunk_rows' = out.chunk_rows
           /\ metadata_rows' = out.metadata_rows
           /\ svc_response' =
                IF out.result = "raised" THEN SvcResponse(500, "error")
                ELSE IF out.result = "error" THEN SvcResponse(404, "error")
                ELSE SvcResponse(200, "deleted")
    /\ dpc' = "idle"
    /\ UNCHANGED <<svc_request, files, open_sessions, storeLocals, served>>

\* main.py:463-531  list_documents: close_db is the last statement of the
\* try block
ListRequest ==
    /\ dpc = "list"
    /\ \/ /\ svc_response' = SvcResponse(200, "list")
          /\ UNCHANGED open_sessions
       \/ \* a query or the conversion of a row raises
          /\ svc_response' = SvcResponse(500, "error")
          /\ open_sessions' = open_sessions + 1
    /\ dpc' = "idle"
    /\ UNCHANGED <<svc_request, files, storeTables, storeLocals, served>>

\* simple_document_processor.py:38-55  download_document, called at
\* process_document_from_url line 162
UrlDownloadTemp ==
    /\ dpc = "url"
    /\ \/ \* requests.get or raise_for_status raises: no file is created
          /\ dpc' = "url_finally"
          /\ svc_response' = SvcResponse(0, "raised")
          /\ temp_path' = 0
          /\ UNCHANGED files
       \/ /\ files # Paths
          /\ files' = files \cup {FreshPath}
          /\ \/ \* temp_file.write raises: the name is not returned
                /\ dpc' = "url_finally"
                /\ svc_response' = SvcResponse(0, "raised")
                /\ temp_path' = 0
             \/ /\ dpc' = "url_extract"
                /\ temp_path' = FreshPath
                /\ UNCHANGED svc_response
    /\ UNCHANGED <<svc_request, storeTables, open_sessions, document_id,
                   proc_path, proc_chunks, served>>

\* simple_document_processor.py:164-188  extraction, cleaning and chunking
UrlProcess ==
    /\ dpc = "url_extract"
    /\ svc_response' \in {SvcResponse(0, "returned"), SvcResponse(0, "raised")}
    /\ dpc' = "url_finally"
    /\ UNCHANGED <<svc_request, files, storeTables, open_sessions,
                   storeLocals, served>>

\* simple_document_processor.py:190-199  the finally clause
UrlFinally ==
    /\ dpc = "url_finally"
    /\ IF temp_path # 0 /\ temp_path \in files
       THEN \/ files' = files \ {temp_path}
            \/ \* Path.unlink raises, which is logged
               files' = files
       ELSE files' = files
    /\ svc_response' =
         IF svc_response.result = "returned" THEN SvcResponse(200, "returned")
         ELSE SvcResponse(500, "error")
    /\ dpc' = "idle"
    /\ UNCHANGED <<svc_request, storeTables, open_sessions, storeLocals, served>>

----------------------------------------------------------------------------
(* SimpleEmbeddingManager.encode and encode_batch called by one thread.     *)
(* The sentence transformer is loaded or not (self.model is None); a call   *)
(* to it returns one vector per text, of the dimension of the model, or     *)
(* raises.  The fallback is _generate_dummy_embedding of each text.         *)

\* the dimensions a loaded model can have
ModelDimensions == {MaxEmbeddingSize, MaxEmbeddingSize + 1}

\* self.model.encode(text).tolist(): a vector of the model for the text
ModelEmbedding(txt, dim) ==
    Normalize([i \in 1..dim |-> IF i = 1 THEN TextHash(txt) + 1 ELSE 1])

\* the arguments of a call: encode takes one text, encode_batch a list
EncodeCalls ==
    {[method |-> "encode", texts |-> <<txt>>] : txt \in EmbedTexts}
        \cup {[method |-> "encode_batch", texts |-> ts] :
                ts \in SeqsUpTo(EmbedTexts, MaxBatch)}

BatchIdle ==
    /\ bpc = "idle" /\ enc_model = 0
    /\ enc_call = [method |-> "none", texts |-> <<>>]
    /\ model_raised = FALSE /\ enc_result = <<>>

\* simple_embedding_manager.py:30-43: the model is loaded (its dimension) or
\* self.model is None (0)
InitBatch ==
    /\ bpc = "call" /\ enc_model \in ModelDimensions \cup {0}
    /\ enc_call \in EncodeCalls
    /\ model_raised = FALSE /\ enc_result = <<>>

\* the mutant of the try block: an exception of the model goes to the caller
EncodeTryRaising ==
    /\ bpc = "call"
    /\ IF enc_model = 0
       THEN /\ bpc' = "fallback"
            /\ UNCHANGED <<model_raised, enc_result>>
       ELSE \/ /\ enc_result' =
                    [i \in 1..Len(enc_call.texts) |->
                        ModelEmbedding(enc_call.texts[i], enc_model)]
               /\ bpc' = "returned"
               /\ UNCHANGED model_raised
            \/ /\ model_raised' = TRUE
               /\ bpc' = "raised"
               /\ UNCHANGED enc_result
    /\ UNCHANGED <<enc_model, enc_call>>

\* simple_embedding_manager.py:65-72 and 80-87: the try block of encode and
\* of encode_batch
EncodeTry ==
    /\ bpc = "call"
    /\ IF enc_model = 0
       THEN /\ bpc' = "fallback"
            /\ UNCHANGED <<model_raised, enc_result>>
       ELSE \/ /\ enc_result' =
                    [i \in 1..Len(enc_call.texts) |->
                        ModelEmbedding(enc_call.texts[i], enc_model)]
               /\ bpc' = "returned"
               /\ UNCHANGED model_raised
            \/ \* self.model.encode raises: except Exception
               /\ model_raised' = TRUE
               /\ bpc' = "fallback"
               /\ UNCHANGED enc_result
    /\ UNCHANGED <<enc_model, enc_call>>

\* simple_embedding_manager.py:72, 76 and 87, 91: the dummy embedding of
\* each text is returned
EncodeFallback ==
    /\ bpc = "fallback"
    /\ enc_result' =
         [i \in 1..Len(enc_call.texts) |->
             generate_dummy_embedding(enc_call.texts[i])]
    /\ bpc' = "returned"
    /\ UNCHANGED <<enc_model, enc_call, model_raised>>

\* no request is being served and encode is not running
ServiceIdle == QueryIdle /\ StoreIdle /\ BatchIdle

----------------------------------------------------------------------------
(* Specifications *)

Init == InitRun /\ FindIdle /\ CreateIdle /\ SplitIdle /\ ParseIdle /\ EmbedIdle
    /\ ExtractIdle /\ AsyncIdle /\ ServiceIdle

Next ==
    \/ Extract /\ UNCHANGED exceptRun
    \/ Chunk /\ UNCHANGED exceptRun
    \/ Index /\ UNCHANGED exceptRun
    \/ AnswerQuestion /\ UNCHANGED exceptRun
    \/ Finish /\ UNCHANGED exceptRun

Spec == Init /\ [][Next]_vars

InitFindSpec ==
    InitFind /\ RunIdle /\ CreateIdle /\ SplitIdle /\ ParseIdle /\ EmbedIdle
    /\ ExtractIdle /\ AsyncIdle /\ ServiceIdle

NextFind == FindSimilar /\ UNCHANGED exceptFind

SpecFind == InitFindSpec /\ [][NextFind]_vars

InitChunking ==
    /\ RunIdle /\ FindIdle /\ ParseIdle /\ EmbedIdle
    /\ ExtractIdle /\ AsyncIdle /\ ServiceIdle
    /\ \/ InitCreate /\ SplitIdle
       \/ InitSplit /\ CreateIdle

NextChunking ==
    \/ CreateStep /\ UNCHANGED exceptCreate
    \/ CreateFinal /\ UNCHANGED exceptCreate
    \/ SplitEnter /\ UNCHANGED exceptSplit
    \/ SplitStep /\ UNCHANGED exceptSplit

SpecChunking == InitChunking /\ [][NextChunking]_vars

InitParseSpec ==
    InitParse /\ RunIdle /\ FindIdle /\ CreateIdle /\ SplitIdle /\ EmbedIdle
    /\ ExtractIdle /\ AsyncIdle /\ ServiceIdle

NextParse ==
    \/ ProcessQueryParse /\ UNCHANGED exceptParse
    \/ ParseLabeled /\ UNCHANGED exceptParse

SpecParse == InitParseSpec /\ [][NextParse]_vars

InitEmbedSpec ==
    InitEmbed /\ RunIdle /\ FindIdle /\ CreateIdle /\ SplitIdle /\ ParseIdle
    /\ ExtractIdle /\ AsyncIdle /\ ServiceIdle

NextEmbed ==
    \E t \in Threads :
        \/ EmbedCall(t) /\ UNCHANGED exceptEmbed
        \/ EmbedSeed(t) /\ UNCHANGED exceptEmbed
        \/ EmbedDraw(t) /\ UNCHANGED exceptEmbed
        \/ EmbedReturn(t) /\ UNCHANGED exceptEmbed

SpecEmbed == InitEmbedSpec /\ [][NextEmbed]_vars

OthersIdle ==
    /\ RunIdle /\ FindIdle /\ CreateIdle /\ SplitIdle /\ ParseIdle /\ EmbedIdle
    /\ ServiceIdle

InitExtractSpec == InitExtract /\ OthersIdle /\ AsyncIdle

NextExtract ==
    \/ ImprovedMethod1 /\ UNCHANGED exceptExtract
    \/ ImprovedMethod2 /\ UNCHANGED exceptExtract
    \/ ImprovedMethod3 /\ UNCHANGED exceptExtract
    \/ DocMethod1 /\ UNCHANGED exceptExtract
    \/ DocMethod2 /\ UNCHANGED exceptExtract
    \/ SimpleExtract /\ UNCHANGED exceptExtract
    \/ UrlDownload /\ UNCHANGED exceptExtract
    \/ UrlDispatch /\ UNCHANGED exceptExtract

SpecExtract == InitExtractSpec /\ [][NextExtract]_vars

InitAsyncSpec == InitAsync /\ OthersIdle /\ ExtractIdle

NextAsync ==
    \E r \in Requests :
        \/ ReqArrive(r) /\ UNCHANGED exceptAsync
        \/ ReqStart(r) /\ UNCHANGED exceptAsync
        \/ ReqDownloaded(r) /\ UNCHANGED exceptAsync
        \/ ReqExtracted(r) /\ UNCHANGED exceptAsync
        \/ ReqEmbedded(r) /\ UNCHANGED exceptAsync
        \/ ReqGenerated(r) /\ UNCHANGED exceptAsync
        \/ ReqRespond(r) /\ UNCHANGED exceptAsync

SpecAsync == InitAsyncSpec /\ [][NextAsync]_vars

\* the document of a /hackrx/run request: clean_text and split_into_chunks
\* called on a text, and hackrx_run on what they return
InitDocument ==
    /\ FindIdle /\ CreateIdle /\ ParseIdle /\ EmbedIdle /\ ExtractIdle
    /\ AsyncIdle /\ ServiceIdle
    /\ \/ InitSplit /\ RunIdle
       \/ InitRun /\ SplitIdle

NextDocument ==
    \/ SplitEnter /\ UNCHANGED exceptSplit
    \/ SplitStep /\ UNCHANGED exceptSplit
    \/ Extract /\ UNCHANGED exceptRun
    \/ Chunk /\ UNCHANGED exceptRun
    \/ Index /\ UNCHANGED exceptRun
    \/ AnswerQuestion /\ UNCHANGED exceptRun
    \/ Finish /\ UNCHANGED exceptRun

SpecDocument == InitDocument /\ [][NextDocument]_vars

\* every machine outside the web service of main.py is idle
PipelineIdle ==
    /\ RunIdle /\ FindIdle /\ CreateIdle /\ SplitIdle /\ ParseIdle /\ EmbedIdle
    /\ ExtractIdle /\ AsyncIdle

InitQuerySpec == InitQuery /\ StoreIdle /\ BatchIdle /\ PipelineIdle

NextQuery ==
    \/ QueryValidate /\ UNCHANGED exceptQuery
    \/ QueryEncode /\ UNCHANGED exceptQuery
    \/ QuerySearch /\ UNCHANGED exceptQuery
    \/ QueryGenerate /\ UNCHANGED exceptQuery
    \/ QueryRespond /\ UNCHANGED exceptQuery

SpecQuery == InitQuerySpec /\ [][NextQuery]_vars

InitStoreSpec == InitStore /\ QueryIdle /\ BatchIdle /\ PipelineIdle

NextStore ==
    \/ SvcRequest /\ UNCHANGED exceptStore
    \/ UploadStore /\ UNCHANGED exceptStore
    \/ ProcCreate /\ UNCHANGED exceptStore
    \/ ProcExtract /\ UNCHANGED exceptStore
    \/ ProcEmbeddings /\ UNCHANGED exceptStore
    \/ ProcComplete /\ UNCHANGED exceptStore
    \/ ProcExcept /\ UNCHANGED exceptStore
    \/ UploadFinally /\ UNCHANGED exceptStore
    \/ ReprocessLookup /\ UNCHANGED exceptStore
    \/ ReprocessDelete /\ UNCHANGED exceptStore
    \/ ReprocessRespond /\ UNCHANGED exceptStore
    \/ DeleteRequest /\ UNCHANGED exceptStore
    \/ ListRequest /\ UNCHANGED exceptStore
    \/ UrlDownloadTemp /\ UNCHANGED exceptStore
    \/ UrlProcess /\ UNCHANGED exceptStore
    \/ UrlFinally /\ UNCHANGED exceptStore

SpecStore == InitStoreSpec /\ [][NextStore]_vars

InitBatchSpec == InitBatch /\ QueryIdle /\ StoreIdle /\ PipelineIdle

NextBatch ==
    \/ EncodeTry /\ UNCHANGED exceptBatch
    \/ EncodeFallback /\ UNCHANGED exceptBatch

SpecBatch == InitBatchSpec /\ [][NextBatch]_vars

----------------------------------------------------------------------------
(* Claims about hackrx_run (specification Spec) *)

\* C1: every run that gets past chunking returns exactly one answer per
\* question, in the order of the request, and questions_processed is the
\* number of questions received, whichever questions fail.
C1_OneAnswerPerQuestion ==
    /\ Len(answers) = qi
    /\ \A i \in 1..Len(answers) : answers[i].question = questions[i]
    /\ pc = "Done" =>
          /\ response.kind = "HackRxResponse"
          /\ Len(response.answers) = Len(questions)
          /\ \A i \in 1..Len(questions) : response.answers[i].question = questions[i]
          /\ response.questions_processed = Len(questions)

\* C1 witness: a finished run of two questions whose first question failed
C1_Witness ==
    /\ pc = "Done" /\ Len(questions) = 2
    /\ calls[1].enc.raised /\ ~calls[2].enc.raised

\* the failures C2 speaks of: the per-question work raised, or the generation
\* capability raised or returned empty text
QuestionFailed(c) ==
    \/ c.enc.raised
    \/ c.gen.kind = "raise"
    \/ (c.gen.kind = "text" /\ c.gen.text = <<>>)

\* C2: a failed question still gets an Answer, with confidence low and a
\* non-empty explanatory text; nothing is thrown and the loop goes on.
C2_FailedQuestionsAnswerLow ==
    /\ document_chunks # <<>> => pc # "Failed"
    /\ Len(answers) = Len(calls)
    /\ \A i \in 1..Len(answers) :
          QuestionFailed(calls[i]) =>
              /\ answers[i].confidence = "low"
              /\ answers[i].answer # <<>>

\* C3: the run goes Received -> Extracted -> Chunked -> Indexed -> Answering
\* -> Done; it fails only before the embeddings are computed, with a failure
\* response and no answers, and after that it can only go on to a
\* HackRxResponse.
C3_PhaseSteps ==
    {<<"Received", "Extracted">>, <<"Received", "Failed">>,
     <<"Extracted", "Chunked">>, <<"Chunked", "Indexed">>,
     <<"Chunked", "Failed">>, <<"Indexed", "Answering">>,
     <<"Answering", "Answering">>, <<"Answering", "Done">>}

C3_RunPhases ==
    [][/\ <<pc, pc'>> \in C3_PhaseSteps
       /\ pc' = "Failed" =>
             /\ response'.kind \in {"error", "http_error"}
             /\ response'.answers = <<>> /\ answers' = <<>>
             /\ chunk_embeddings' = <<>>
       /\ pc' = "Done" =>
             /\ response'.kind = "HackRxResponse"
             /\ chunk_embeddings' # <<>>]_vars

\* C3 witness: a run that ended Done although every one of its questions failed
C3_Witness ==
    /\ pc = "Done" /\ Len(questions) = 2
    /\ \A i \in 1..Len(calls) : calls[i].enc.raised

\* C4: the context of a question is the chunks among the top 3 by score
\* whose score is > 0.1, best first; with no such chunk it is the first
\* min(2, n) chunks; it is never empty and never an error.
C4_Retrieved == pc \in {"Answering", "Done"} /\ qi >= 1 /\ ~calls[qi].enc.raised

\* the score of every chunk for the question answered last
C4_Scores ==
    [i \in 1..Len(chunk_embeddings) |->
        similarity(calls[qi].enc.vec, chunk_embeddings[i])]

\* the chunks among the top 3 of the scores sc that lie above 0.1
C4_Qualifying(sc) ==
    {i \in DOMAIN sc :
        /\ sc[i].n > 0
        /\ 100 * sc[i].n * sc[i].n > sc[i].d
        /\ Cardinality({j \in DOMAIN sc :
                           \/ ScoreLT(sc[i], sc[j])
                           \/ (ScoreEQ(sc[i], sc[j]) /\ j < i)}) < 3}

C4_ContextOfQuestion ==
    C4_Retrieved =>
        LET sc == C4_Scores
            qualifying == C4_Qualifying(sc)
        IN /\ relevant_chunks # <<>>
           /\ IF qualifying # {}
              THEN /\ Len(relevant_chunks) = Cardinality(qualifying)
                   /\ {relevant_chunks[k] : k \in 1..Len(relevant_chunks)}
                         = {document_chunks[i] : i \in qualifying}
                   /\ \A k, l \in 1..Len(relevant_chunks) :
                         k < l => ScoreGE(sc[relevant_chunks[k]], sc[relevant_chunks[l]])
              ELSE relevant_chunks
                      = SubSeq(document_chunks, 1, Min(2, Len(document_chunks)))
           /\ answers[qi] # ErrorQuestionResponse(questions[qi])

\* C4 witness: no chunk of a four-chunk document qualifies, so the first two
\* chunks are the context
C4_Witness ==
    /\ C4_Retrieved /\ Len(document_chunks) = 4
    /\ C4_Qualifying(C4_Scores) = {} /\ relevant_chunks = <<1, 2>>

----------------------------------------------------------------------------
(* Claims about find_similar_chunks (specification SpecFind) *)

C5_TrueScore(p) == similarity(query_embedding, embeddings_in[p[1] + 1])

\* C5: the results are (chunk index, score) pairs in non-increasing score
\* order, and results of equal score are in ascending chunk index order.
C5_OrderedStable ==
    fpc = "returned" =>
        /\ \A k \in 1..Len(found) :
              /\ found[k][1] \in 0..(Len(embeddings_in) - 1)
              /\ found[k][2] = C5_TrueScore(found[k])
        /\ \A k, l \in 1..Len(found) :
              k < l =>
                  /\ ScoreGE(found[k][2], found[l][2])
                  /\ ScoreEQ(found[k][2], found[l][2]) => found[k][1] < found[l][1]

\* C5 witness: a result holding three entries of one score
C5_Witness ==
    /\ fpc = "returned" /\ Len(found) >= 3
    /\ ScoreEQ(found[1][2], found[2][2]) /\ ScoreEQ(found[2][2], found[3][2])

\* C6: exactly min(top_k, n) results, with distinct indices in 0..n-1, each
\* with its own score, and every returned score is >= every score left out.
C6_TrueTopK ==
    fpc = "returned" =>
        LET n == Len(embeddings_in)
            returned == {found[k][1] : k \in 1..Len(found)}
        IN /\ Len(found) = Min(top_k, n)
           /\ returned \subseteq 0..(n - 1)
           /\ Cardinality(returned) = Len(found)
           /\ \A k \in 1..Len(found) : found[k][2] = C5_TrueScore(found[k])
           /\ \A k \in 1..Len(found) : \A j \in (0..(n - 1)) \ returned :
                 ScoreGE(found[k][2], similarity(query_embedding, embeddings_in[j + 1]))

\* C6 witness: two of four chunks are returned and a chunk left out scores
\* strictly less than the last one returned
C6_Witness ==
    /\ fpc = "returned" /\ top_k = 2 /\ Len(embeddings_in) = 4 /\ Len(found) = 2
    /\ \E j \in 0..3 :
          /\ j \notin {found[1][1], found[2][1]}
          /\ ScoreLT(similarity(query_embedding, embeddings_in[j + 1]), found[2][2])

----------------------------------------------------------------------------
(* Claims about the two chunkers (specification SpecChunking) *)

\* a chunk of split_into_chunks that is one sentence: nothing ends a sentence
\* before its last character
C7_OneSentence(c) == \A k \in 1..(Len(c) - 1) : c[k] \notin SentenceEnd

\* C7: no chunk is longer than the configured chunk size, unless it is
\* exactly one sentence that alone exceeds it; for _create_chunks and for
\* split_into_chunks.
C7_ChunkWithinSize ==
    /\ \A k \in 1..Len(chunks) :
          \/ JoinLen(sentences, chunks[k].chunk_text) <= chunk_size
          \/ Len(chunks[k].chunk_text) = 1
    /\ \A k \in 1..Len(split_chunks) :
          \/ Len(split_chunks[k]) <= split_chunk_size
          \/ C7_OneSentence(split_chunks[k])

\* C8: in _create_chunks every sentence longer than chunk_size is, wherever
\* it stands, the whole text of some emitted chunk.
C8_LongSentenceOwnChunk ==
    cpc = "done" =>
        \A i \in 1..Len(sentences) :
            sentences[i] > chunk_size =>
                \E k \in 1..Len(chunks) : chunks[k].chunk_text = <<i>>

\* the sentences chunk cur repeats from the end of chunk prev
C9_Shared(prev, cur) ==
    LET m == CHOOSE j \in 0..Min(Len(prev), Len(cur)) :
                 /\ SubSeq(cur, 1, j) = PySuffix(prev, j)
                 /\ \A h \in (j + 1)..Min(Len(prev), Len(cur)) :
                        SubSeq(cur, 1, h) # PySuffix(prev, h)
    IN SubSeq(cur, 1, m)

\* C9: what a closed chunk hands to the next one is a suffix of it, of at
\* most 2 sentences and of at most chunk_overlap characters.
C9_OverlapBounded ==
    /\ Len(overlap_sentences) <= 2
    /\ JoinLen(sentences, overlap_sentences) <= chunk_overlap
    /\ \A k \in 1..(Len(chunks) - 1) :
          LET shared == C9_Shared(chunks[k].chunk_text, chunks[k + 1].chunk_text)
          IN /\ Len(shared) <= 2
             /\ JoinLen(sentences, shared) <= chunk_overlap

\* the chunks read in order, each without what it repeats from the one before
RECURSIVE C10_Reread(_, _)
C10_Reread(cs, k) ==
    IF k > Len(cs) THEN <<>>
    ELSE IF k = 1 THEN cs[1].chunk_text \o C10_Reread(cs, 2)
    ELSE LET shared == C9_Shared(cs[k - 1].chunk_text, cs[k].chunk_text)
         IN SubSeq(cs[k].chunk_text, Len(shared) + 1, Len(cs[k].chunk_text))
                \o C10_Reread(cs, k + 1)

C10_NonBlank(t) == SelectSeq(t, LAMBDA c : c # " ")

C10_KeptSpans == SelectSeq(spans, LAMBDA sp : sp.kept)

\* the characters of the kept slices read in order, each from where the one
\* before ended
RECURSIVE C10_RereadSpans(_, _, _)
C10_RereadSpans(sps, k, upto) ==
    IF k > Len(sps) THEN <<>>
    ELSE SubSeq(text, Max(sps[k].lo, upto) + 1, sps[k].hi)
             \o C10_RereadSpans(sps, k + 1, Max(upto, sps[k].hi))

\* C10: chunking loses nothing and keeps the order: every sentence
\* (_create_chunks) and every non-blank character (split_into_chunks) is in
\* a chunk, and the chunks read in order without the repeated part give the
\* text back.
C10_NothingLost ==
    /\ cpc = "done" =>
          /\ \A i \in 1..Len(sentences) :
                \E k \in 1..Len(chunks) :
                    \E j \in 1..Len(chunks[k].chunk_text) : chunks[k].chunk_text[j] = i
          /\ C10_Reread(chunks, 1) = [i \in 1..Len(sentences) |-> i]
    /\ (spc = "done" /\ text # <<>>) =>
          /\ Len(split_chunks) = Len(C10_KeptSpans)
          /\ \A k \in 1..Len(split_chunks) :
                split_chunks[k]
                    = Strip(SubSeq(text, C10_KeptSpans[k].lo + 1, C10_KeptSpans[k].hi))
          /\ \A q \in 1..Len(text) :
                text[q] # " " =>
                    \E k \in 1..Len(C10_KeptSpans) :
                        C10_KeptSpans[k].lo < q /\ q <= C10_KeptSpans[k].hi
          /\ C10_NonBlank(C10_RereadSpans(C10_KeptSpans, 1, 0)) = C10_NonBlank(text)

\* C10 witness: a text with a blank cut into three overlapping chunks
C10_Witness ==
    /\ spc = "done" /\ Len(split_chunks) = 3 /\ split_overlap >= 1
    /\ \E q \in 1..Len(text) : text[q] = " "

\* the first and the last character a kept slice leaves after strip(), as
\* positions of the text counted from 1
C11_First(sp) ==
    CHOOSE q \in (sp.lo + 1)..sp.hi :
        text[q] # " " /\ \A j \in (sp.lo + 1)..(q - 1) : text[j] = " "

C11_Last(sp) ==
    CHOOSE q \in (sp.lo + 1)..sp.hi :
        text[q] # " " /\ \A j \in (q + 1)..sp.hi : text[j] = " "

\* position q is where a sentence of the text begins: only blanks stand
\* before it, or the last non-blank character before it ends a sentence
C11_SentenceBegins(q) ==
    \/ \A j \in 1..(q - 1) : text[j] = " "
    \/ \E j \in 1..(q - 1) :
          text[j] \in SentenceEnd /\ \A h \in (j + 1)..(q - 1) : text[h] = " "

\* position q is where a sentence of the text ends
C11_SentenceEnds(q) ==
    \/ text[q] \in SentenceEnd
    \/ \A j \in (q + 1)..Len(text) : text[j] = " "

\* C11: split_into_chunks never splits mid-sentence: every chunk it returns
\* starts at the beginning of a sentence of the text and ends at the end of
\* one.
C11_NeverMidSentence ==
    \A k \in 1..Len(spans) :
        spans[k].kept =>
            /\ C11_SentenceBegins(C11_First(spans[k]))
            /\ C11_SentenceEnds(C11_Last(spans[k]))

\* C12: split_into_chunks terminates for every text and every pair with
\* chunk_size > 0 and 0 <= overlap < chunk_size: in every iteration of the
\* loop the start offset is non-negative and strictly greater than in the
\* iteration before.  The body of the loop is a function of (text, start), so
\* an iteration that does not move start forward is repeated for ever.
C12_StartAdvances ==
    \A k \in 1..Len(spans) :
        /\ spans[k].start >= 0
        /\ (IF k < Len(spans) THEN spans[k + 1].start ELSE start) > spans[k].start

----------------------------------------------------------------------------
(* Claims about the two parsers (specification SpecParse) *)

C13_Parsed == ppc \in {"json_parsed", "done"}

\* a JSON object that holds the four required fields
C13_CompleteObject(s) ==
    /\ IsJsonObject(s)
    /\ \A k \in 1..Len(required_fields) : required_fields[k] \in json_loads(s).fields

\* the places <<i, j>> of the characters cs where such an object stands
C13_Objects(cs) ==
    {ij \in (1..Len(cs)) \X (1..Len(cs)) :
        ij[1] <= ij[2] /\ C13_CompleteObject(SubSeq(cs, ij[1], ij[2]))}

\* the object at ij is the one from the first '{' to the last '}' of cs
C13_Outermost(cs, ij) ==
    /\ \A k \in 1..(ij[1] - 1) : cs[k] # "{"
    /\ \A k \in (ij[2] + 1)..Len(cs) : cs[k] # "}"

\* C13 as stated: for every response of the form prose, one valid JSON
\* object holding answer, supporting_clauses, explanation and confidence,
\* prose, parse_llm_response returns exactly that object; for every other
\* response it raises ValueError and no other exception.
C13_RecoversWrappedObject ==
    C13_Parsed =>
        LET cs == ResponseChars(llm_response)
        IN IF C13_Objects(cs) # {}
           THEN \A ij \in C13_Objects(cs) :
                    parsed_response = Returned(json_loads(SubSeq(cs, ij[1], ij[2])))
           ELSE parsed_response = Raised("ValueError")

\* C13 amended: the same, for the responses whose leading prose holds no '{'
\* and whose trailing prose holds no '}'; every other response raises
\* ValueError and no other exception.
C13_RecoversOutermostObject ==
    C13_Parsed =>
        LET cs == ResponseChars(llm_response)
            outer == {ij \in C13_Objects(cs) : C13_Outermost(cs, ij)}
        IN IF outer # {}
           THEN \A ij \in outer :
                    parsed_response = Returned(json_loads(SubSeq(cs, ij[1], ij[2])))
           ELSE parsed_response = Raised("ValueError")

\* C13 witness: an object with prose in front of it and behind it is returned
C13_Witness ==
    /\ C13_Parsed /\ parsed_response.kind = "return"
    /\ LET cs == ResponseChars(llm_response)
       IN /\ Len(cs) = 7 /\ cs[1] = "p" /\ cs[2] = " " /\ cs[3] = "{"
          /\ cs[5] = "}" /\ cs[6] = " " /\ cs[7] = "p"

C14_LabeledParsed == ppc \in {"labeled_parsed", "done"}

\* no line of the text carries one of the labels (an empty text has no line)
C14_NoLabel(txt) == \A i \in 1..Len(txt) : txt[i].label = "none"

\* C14: a generation output that does not match the expected structure (no
\* JSON object or a required field missing, on the JSON path; no label or an
\* empty output, on the labeled-line path) becomes a degraded Answer with
\* confidence low: no error response, no Answer of a higher confidence.
C14_DegradedAnswerLow ==
    /\ (C13_Parsed /\ C13_Objects(ResponseChars(llm_response)) = {}) =>
          /\ query_outcome.kind = "QueryResponse"
          /\ query_outcome.confidence = "low"
    /\ (C14_LabeledParsed /\ C14_NoLabel(llm_response)) =>
          labeled_outcome.confidence = "low"

\* the confidence values a labeled-line text gives, in order
C15_LabeledConfidences(txt) ==
    LET conf == SelectSeq(txt, LAMBDA line : line.label = "confidence")
    IN [i \in 1..Len(conf) |-> conf[i].body]

\* C15: every Answer returned has a confidence in {high, medium, low}; a
\* confidence outside that set in the generation output is replaced by
\* medium, on the labeled-line path and on the JSON path.
C15_ConfidenceNormalised ==
    /\ (C14_LabeledParsed) =>
          /\ labeled_outcome.confidence \in ConfidenceLevels
          /\ C15_LabeledConfidences(llm_response) = << <<"certain">> >> =>
                labeled_outcome.confidence = "medium"
    /\ (C13_Parsed /\ query_outcome.kind = "QueryResponse") =>
          /\ query_outcome.confidence \in ConfidenceLevels
          /\ parsed_response.value.confidence \notin ConfidenceLevels =>
                query_outcome.confidence = "medium"

\* the text carries an answer, a confidence and an evidence line
C16_FullyLabeled(txt) ==
    \A l \in {"answer", "confidence", "evidence"} :
        \E i \in 1..Len(txt) : txt[i].label = l

\* C16: the two dialects are interchangeable.  A response one parser takes
\* apart is taken apart by the other too, into the same answer, confidence
\* and evidence, under the same field names, and never handed back as raw
\* text.
C16_DialectsInterchangeable ==
    ppc = "done" =>
        /\ (query_outcome.kind = "QueryResponse" \/ C16_FullyLabeled(llm_response)) =>
              /\ query_outcome.kind = "QueryResponse"
              /\ labeled_outcome.answer = query_outcome.answer
              /\ labeled_outcome.confidence = query_outcome.confidence
              /\ labeled_outcome.supporting_evidence = query_outcome.supporting_clauses
              /\ labeled_outcome.answer # TextWords(llm_response)
        /\ QueryResponseFields \ {"query_id", "timestamp"}
              = HackRxQuestionResponseFields \ {"question"}

----------------------------------------------------------------------------
(* Claims about the fallback embedding (specification SpecEmbed) *)

\* C17: the fallback embedding of a text is the same vector on every call,
\* whichever texts were embedded before it and whichever embedding calls for
\* other texts run in other threads at the same time.
C17_EmbeddingDeterministic ==
    \A t \in Threads :
        epc[t] = "returned" =>
            SameEmbedding(embedded[t], generate_dummy_embedding(embed_text[t]))

----------------------------------------------------------------------------
(* Claims about text extraction (specification SpecExtract) *)

\* the order of the strategies: layout-based, raster-text, block-level
C18_Order == <<"pdfplumber", "pymupdf", "blocks">>

\* the strategies that give usable text for the file
C18_Usable == {k \in 1..Len(C18_Order) : library[C18_Order[k]] = "text"}

\* the strategies to try: all up to the first one that gives usable text
C18_ToTry ==
    IF C18_Usable = {} THEN C18_Order
    ELSE SubSeq(C18_Order, 1, CHOOSE k \in C18_Usable : \A j \in C18_Usable : k <= j)

\* C18: PDF extraction tries layout-based, then raster-text, then
\* block-level text; a later strategy is tried whenever every earlier one
\* gave no usable text, whether it raised, found nothing or had its text
\* discarded as corrupted; failure is reported only after all were tried.
C18_StrategyChain ==
    (/\ xpc = "done"
     /\ extractor \in {"extract_text_from_pdf_improved", "_extract_text_from_pdf",
                       "extract_text_from_pdf"}) =>
        /\ attempted = C18_ToTry
        /\ (extract_result.kind = "text") = (C18_Usable # {})

\* C19: process_document_from_url extracts a PDF source with the PDF
\* strategy and a plain-text source with the plain-text strategy, and rejects
\* with 'Unsupported file type' the sources of an unsupported format, and
\* only those.
C19_DispatchByFormat ==
    (extractor = "process_document_from_url" /\ dispatched # "none") =>
        /\ source_format = "pdf" => dispatched = "extract_text_from_pdf"
        /\ source_format = "txt" => dispatched = "extract_text_from_txt"
        /\ (source_format \notin {"pdf", "txt"})
              = (dispatched = "Unsupported file type")

----------------------------------------------------------------------------
(* Claims about requests on the event loop (specification SpecAsync) *)

\* C20: a long-running call inside a request is a suspension point: while
\* one request waits for its download, extraction, embedding or generation
\* call, every other request that has work to do can take a step.
C20_IOSuspends ==
    \A r \in Requests : \A u \in Requests \ {r} :
        (rpc[r] \in IOPhases /\ rpc[u] \notin {"not_sent", "done"}) =>
            ENABLED ReqProgress(u)

----------------------------------------------------------------------------
\* C21 helpers: a request body the endpoint has to reject, and what it means
\* for r to be v without its surrounding whitespace.
C21_AllWhitespace(v) == \A k \in 1..Len(v) : v[k].c = " "

C21_ToReject(body) ==
    \/ ~body.present
    \/ RunLen(body.query) = 0
    \/ C21_AllWhitespace(body.query)
    \/ RunLen(body.query) > max_length

C21_StrippedOf(r, v) ==
    \E i \in 1..Len(v) : \E j \in i..Len(v) :
        /\ r = SubSeq(v, i, j)
        /\ r[1].c # " " /\ r[Len(r)].c # " "
        /\ C21_AllWhitespace(SubSeq(v, 1, i - 1))
        /\ C21_AllWhitespace(SubSeq(v, j + 1, Len(v)))

\* C21: POST /query answers 422 to a request whose query is missing, empty,
\* whitespace-only or longer than 1000 characters, and makes no embedding,
\* search or generation call for it; a query it accepts enters the pipeline,
\* and every call that takes the query gets it without its surrounding
\* whitespace.
C21_QueryValidation ==
    qpc \notin {"idle", "posted"} =>
        IF C21_ToReject(query_body)
        THEN qpc = "done" /\ qstatus = 422 /\ qcalls = <<>>
        ELSE /\ qpc = "encode" \/ qcalls # <<>>
             /\ C21_StrippedOf(request_query, query_body.query)
             /\ \A k \in 1..Len(qcalls) :
                    /\ k = 1 => qcalls[k].call = "encode"
                    /\ qcalls[k].call \in {"encode", "generate_response"} =>
                           C21_StrippedOf(qcalls[k].arg, query_body.query)

\* C21 witness: a query of more than 1000 characters that would fit without
\* its whitespace has been rejected, with no call made.
C21_Witness ==
    /\ qpc = "done" /\ qstatus = 422 /\ qcalls = <<>>
    /\ query_body.present
    /\ RunLen(query_body.query) > max_length
    /\ RunLen(RunStrip(query_body.query)) \in 1..max_length

----------------------------------------------------------------------------
\* C22: a reprocess request for a document that upload_document processed
\* to 'completed' ends with status 200 and a completed result, and a
\* reprocess request answered 404 or 400 leaves the files, the rows and the
\* vectors as they were.
C22_ReprocessStep ==
    /\ (/\ svc_request.kind = "reprocess" /\ svc_request.completed
        /\ dpc # "idle" /\ dpc' = "idle")
            => svc_response' = SvcResponse(200, "completed")
    /\ (dpc = "reprocess" /\ svc_response'.status \in {400, 404})
            => UNCHANGED <<files, metadata_rows, chunk_rows, index_vectors>>

C22_ReprocessSucceeds == [][C22_ReprocessStep]_vars

----------------------------------------------------------------------------
\* C23 helper: the text holds nothing but whitespace.
C23_Blank(t) == \A k \in 1..Len(t) : t[k] = " "

\* C23: clean_text turns an empty or whitespace-only text into the empty
\* text, split_into_chunks returns no chunk for the empty text and does not
\* raise, and hackrx_run, given no chunk, ends with a failure response
\* without any embedding or generation call and without answers.
C23_EmptyTextFailsDocument ==
    /\ (spc # "idle" /\ C23_Blank(text)) => clean_text(text) = <<>>
    /\ (spc \notin {"idle", "call"} /\ text = <<>>) =>
            spc = "done" /\ split_chunks = <<>>
    /\ (pc \notin {"idle", "Received", "Extracted", "Chunked"}
            /\ document_chunks = <<>>) =>
            /\ pc = "Failed"
            /\ response.kind # "HackRxResponse" /\ response.status \in {400, 500}
            /\ response.answers = <<>> /\ answers = <<>>
            /\ chunk_embeddings = <<>> /\ calls = <<>>

\* C23 witness: hackrx_run has answered 400 to a document without chunks.
C23_Witness ==
    /\ pc = "Failed" /\ response.status = 400
    /\ document_chunks = <<>> /\ calls = <<>> /\ answers = <<>>

----------------------------------------------------------------------------
\* C24: encode and encode_batch never raise; without a model, or when the
\* call to the model raised, they return the fallback embedding of each
\* input; and the result holds one vector per input text, in input order,
\* all of one dimension.
C24_NeverHardFails ==
    /\ bpc # "raised"
    /\ bpc = "returned" =>
        /\ Len(enc_result) = Len(enc_call.texts)
        /\ \A i \in 1..Len(enc_result) :
              IF enc_model = 0 \/ model_raised
              THEN SameEmbedding(enc_result[i],
                                 generate_dummy_embedding(enc_call.texts[i]))
              ELSE SameEmbedding(enc_result[i],
                                 ModelEmbedding(enc_call.texts[i], enc_model))
        /\ \A i, j \in 1..Len(enc_result) :
              Len(enc_result[i].x) = Len(enc_result[j].x)

\* C24 witness: the model raised on a batch of two different texts and the
\* batch came back as their two fallback embeddings.
C24_Witness ==
    /\ bpc = "returned" /\ model_raised
    /\ enc_call.method = "encode_batch" /\ Len(enc_call.texts) >= 2
    /\ enc_call.texts[1] # enc_call.texts[2]
    /\ Len(enc_result) = Len(enc_call.texts)
    /\ ~SameEmbedding(enc_result[1], enc_result[2])

----------------------------------------------------------------------------
\* C25 helpers: the labeled line that opened the section an unlabeled line
\* i of the text is in (0: none), and what the lines from i on add to the
\* answer opened at line a and to the evidence.
C25_Opener(txt, i) ==
    LET before == {k \in 1..(i - 1) : txt[k].label # "none"}
    IN IF before = {} THEN 0 ELSE CHOOSE k \in before : \A j \in before : j <= k

C25_Continues(txt, i, label) ==
    /\ txt[i].label = "none" /\ ~IsBlank(txt[i])
    /\ C25_Opener(txt, i) # 0 /\ txt[C25_Opener(txt, i)].label = label

RECURSIVE C25_AnswerFrom(_, _, _)
C25_AnswerFrom(txt, a, i) ==
    IF i > Len(txt) THEN <<>>
    ELSE (IF C25_Continues(txt, i, "answer") /\ C25_Opener(txt, i) = a
          THEN LineWords(txt[i]) ELSE <<>>) \o C25_AnswerFrom(txt, a, i + 1)

RECURSIVE C25_EvidenceFrom(_, _)
C25_EvidenceFrom(txt, i) ==
    IF i > Len(txt) THEN <<>>
    ELSE (IF txt[i].label = "evidence" /\ txt[i].body # <<>> THEN <<txt[i].body>>
          ELSE IF C25_Continues(txt, i, "evidence") THEN <<LineWords(txt[i])>>
          ELSE <<>>) \o C25_EvidenceFrom(txt, i + 1)

C25_Answer(txt) ==
    LET answers_at == {k \in 1..Len(txt) : txt[k].label = "answer"}
        a == CHOOSE k \in answers_at : \A j \in answers_at : j <= k
    IN IF answers_at = {} THEN TextWords(txt)
       ELSE txt[a].body \o C25_AnswerFrom(txt, a, a + 1)

\* C25: the answer _parse_response returns is the text after the last
\* 'Answer:' label followed, one blank apart, by the non-blank unlabeled
\* lines of that section, or the whole raw response when there is no
\* 'Answer:' line; the evidence is, in order, the text after each
\* 'Supporting Evidence:' label and each non-blank unlabeled line of an
\* evidence section; blank lines add nothing and end no section; and the
\* result has the keys question, answer, confidence, supporting_evidence.
C25_LineScan ==
    ppc \in {"labeled_parsed", "done"} =>
        /\ DOMAIN labeled_outcome = HackRxQuestionResponseFields
        /\ labeled_outcome.answer = C25_Answer(llm_response)
        /\ labeled_outcome.supporting_evidence = C25_EvidenceFrom(llm_response, 1)

\* C25 witness: an answer line, a blank line and an unlabeled line have
\* been parsed into one answer.
C25_Witness ==
    /\ ppc \in {"labeled_parsed", "done"}
    /\ Len(llm_response) = 3
    /\ llm_response[1].label = "answer" /\ IsBlank(llm_response[2])
    /\ C25_Continues(llm_response, 3, "answer")
    /\ labeled_outcome.answer =
           llm_response[1].body \o LineWords(llm_response[3])

----------------------------------------------------------------------------
\* C26: when the upload handler or process_document_from_url has answered,
\* by a result or by an error, no temporary file is left on the file system.
C26_NoTemporaryFileLeft ==
    (dpc = "idle" /\ svc_request.kind \in {"upload", "url"}) => files = {}

----------------------------------------------------------------------------
\* C27: between requests a chunk id has a vector in the index exactly when
\* its DocumentChunk row exists with embedding_generated = TRUE, and a
\* document whose processing failed has no chunk row and no vector.
C27_StoresAgree ==
    dpc = "idle" =>
        /\ \A d \in DocIds : \A k \in 0..(MaxDocChunks - 1) :
              ChunkId(d, k) \in index_vectors
                  <=> DocumentChunk(ChunkId(d, k), d, TRUE) \in chunk_rows
        /\ \A d \in DocIds :
              metadata_rows[d].status = "failed" =>
                  /\ \A r \in chunk_rows : r.document_id # d
                  /\ \A k \in 0..(MaxDocChunks - 1) :
                        ChunkId(d, k) \notin index_vectors

----------------------------------------------------------------------------
\* C28: the stored status of a document starts as 'processing' and changes
\* at most once, to 'completed' or 'failed'; when process_document returns
\* a completed result the stored status is 'completed' with the number of
\* chunks created, and when it raises with the metadata row created the
\* stored status is 'failed'.
C28_StatusStep ==
    /\ \A d \in DocIds :
          /\ (metadata_rows[d].status = "absent"
                /\ metadata_rows'[d].status # "absent")
                  => metadata_rows'[d].status = "processing"
          /\ (metadata_rows[d].status \in {"completed", "failed"}
                /\ metadata_rows'[d].status # "absent")
                  => metadata_rows'[d].status = metadata_rows[d].status
    /\ (dpc = "complete" /\ dpc' # "complete") =>
          /\ metadata_rows'[document_id].status = "completed"
          /\ metadata_rows'[document_id].chunk_count = proc_chunks
    /\ (dpc = "except" /\ dpc' # "except"
            /\ metadata_rows[document_id].status # "absent") =>
          metadata_rows'[document_id].status = "failed"

C28_StatusSettles == [][C28_StatusStep]_vars

----------------------------------------------------------------------------
\* C29: between requests no database session is open.
C29_SessionsClosed == dpc = "idle" => open_sessions = 0


\* the spans of the loop iterations whose chunk was appended, in order
C30_Kept == SelectSeq(spans, LAMBDA sp : sp.kept)

\* the positions of the text that the stripped chunk of a span holds
C30_Covered(sp) ==
    LET raw == PySlice(text, sp.start, sp.end)
        lead == Len(raw) - Len(LStrip(raw))
    IN {i \in sp.lo..(sp.hi - 1) : i >= sp.lo + lead /\ i < sp.lo + lead + Len(Strip(raw))}

\* C30: split_into_chunks emits no redundant chunk: every chunk after the
\* first covers at least one character of the text that the chunk before it
\* does not contain, and a text of at most chunk_size characters that is not
\* blank yields exactly one chunk, equal to the stripped text.
C30_NoRedundantChunk ==
    spc = "done" =>
        /\ \A k \in 1..(Len(C30_Kept) - 1) :
               C30_Covered(C30_Kept[k + 1]) \ C30_Covered(C30_Kept[k]) # {}
        /\ (Strip(text) # <<>> /\ Len(text) <= split_chunk_size)
               => split_chunks = <<Strip(text)>>

====
